---- MODULE Spec2Model ----
(***************************************************************************)
(* A model of the capability-enforcing system-call layer of wasi-common:   *)
(* the descriptor table (WasiCtx.fds), the per-entry rights masks, and the *)
(* guest-facing calls of src/hostcalls/fs.rs together with their Unix      *)
(* implementations in src/sys/unix/hostcalls_impl/fs.rs.                   *)
(*                                                                         *)
(* A rights mask (a 64-bit word in the code) is the set of the right bits  *)
(* that are set in it: `a & b` is intersection, `a | b` is union and       *)
(* `a & b != b` is "b is not a subset of a".                               *)
(***************************************************************************)
EXTENDS Integers, Sequences, FiniteSets, TLC

(***************************************************************************)
(* Bounds of the model.                                                    *)
(***************************************************************************)
\* path_open may succeed at most MaxOpens times in one behaviour.
MaxOpens == 1
\* The host process may hold raw descriptors 0 .. MaxRawFd.
MaxRawFd == 6
\* Guest memory has the addresses 0 .. MemCells - 1; MemCells is an address
\* outside of it.
MemCells == 1
\* A regular file holds at most MaxSize bytes.
MaxSize == 1
\* An I/O call of the guest moves IoLen bytes.
IoLen == 1
\* A file size or offset (64 bits in the code) has FilesizeBits bits.
FilesizeBits == 3

(***************************************************************************)
(* The ABI's error values, host::__WASI_Exxx.                              *)
(***************************************************************************)
__WASI_ESUCCESS == "success"
__WASI_EBADF == "bad-handle"
__WASI_ENOTCAPABLE == "not-capable"
__WASI_ENOTSUP == "not-supported"
__WASI_ENOTDIR == "not-directory"
__WASI_ENOENT == "no-entry"
__WASI_EISDIR == "is-directory"
__WASI_EINVAL == "invalid-argument"
__WASI_EFAULT == "fault"
__WASI_EIO == "io"
__WASI_EMFILE == "too-many-files"
__WASI_E2BIG == "too-big"
__WASI_ESPIPE == "illegal-seek"
__WASI_EFBIG == "file-too-large"
__WASI_ELOOP == "loop"

(***************************************************************************)
(* The right bits, host::__WASI_RIGHT_xxx, the modelled calls test.        *)
(***************************************************************************)
__WASI_RIGHT_FD_DATASYNC == "fd_datasync"
__WASI_RIGHT_FD_READ == "fd_read"
__WASI_RIGHT_FD_SYNC == "fd_sync"
__WASI_RIGHT_FD_WRITE == "fd_write"
__WASI_RIGHT_FD_ALLOCATE == "fd_allocate"
__WASI_RIGHT_FD_READDIR == "fd_readdir"
__WASI_RIGHT_FD_FILESTAT_SET_SIZE == "fd_filestat_set_size"
__WASI_RIGHT_PATH_OPEN == "path_open"
__WASI_RIGHT_PATH_CREATE_FILE == "path_create_file"
__WASI_RIGHT_PATH_READLINK == "path_readlink"
__WASI_RIGHT_PATH_FILESTAT_GET == "path_filestat_get"
__WASI_RIGHT_PATH_FILESTAT_SET_SIZE == "path_filestat_set_size"

\* host::RIGHTS_REGULAR_FILE_BASE, restricted to the bits above.
RIGHTS_REGULAR_FILE_BASE ==
    { __WASI_RIGHT_FD_DATASYNC, __WASI_RIGHT_FD_READ, __WASI_RIGHT_FD_SYNC,
      __WASI_RIGHT_FD_WRITE, __WASI_RIGHT_FD_ALLOCATE,
      __WASI_RIGHT_FD_FILESTAT_SET_SIZE }
RIGHTS_REGULAR_FILE_INHERITING == {}
\* host::RIGHTS_DIRECTORY_BASE, restricted to the bits above.
RIGHTS_DIRECTORY_BASE ==
    { __WASI_RIGHT_FD_SYNC, __WASI_RIGHT_FD_READDIR, __WASI_RIGHT_PATH_OPEN,
      __WASI_RIGHT_PATH_CREATE_FILE, __WASI_RIGHT_PATH_READLINK,
      __WASI_RIGHT_PATH_FILESTAT_GET, __WASI_RIGHT_PATH_FILESTAT_SET_SIZE }
RIGHTS_DIRECTORY_INHERITING == RIGHTS_DIRECTORY_BASE \cup RIGHTS_REGULAR_FILE_BASE
\* host::RIGHTS_TTY_BASE, restricted to the bits above.
RIGHTS_TTY_BASE == { __WASI_RIGHT_FD_READ, __WASI_RIGHT_FD_WRITE }

__WASI_FILETYPE_CHARACTER_DEVICE == "character_device"
__WASI_FILETYPE_DIRECTORY == "directory"
__WASI_FILETYPE_REGULAR_FILE == "regular_file"
__WASI_FILETYPE_SYMBOLIC_LINK == "symbolic_link"

(***************************************************************************)
(* State.  The context is one whose embedder handed it the standard output *)
(* at handle 1 and one preopened directory at handle 3; the standard input *)
(* and the standard error, which every call treats as it treats the        *)
(* standard output, are not handed over.                                   *)
(*   fds      WasiCtx.fds: guest handle -> FdEntry.  An entry is a record  *)
(*            of the FdObject's file_type, descriptor (the variant of      *)
(*            Descriptor), needs_close, the raw host descriptor the        *)
(*            variant answers as_raw_fd() with, rights_base,               *)
(*            rights_inheriting and preopen_path (an Option: the empty set *)
(*            or a singleton).  `id` names the entry itself (it is the     *)
(*            handle the entry was inserted at), so that an entry can be   *)
(*            followed through the table.                                  *)
(*   hostfds  the host process's descriptor table: raw descriptor -> open  *)
(*            file description (the file it refers to and its access mode) *)
(*   files    the host directory behind the preopen: name -> kind and size *)
(*   created  for every entry of the table, the rights it was created with *)
(*   revoked  the entries of the table that fd_fdstat_set_rights has taken *)
(*            fd_write from                                                *)
(*   nopens   the number of entries path_open has made so far, counted     *)
(*            from what the context allows (MaxOpens in all)               *)
(*   last     the last guest call: its name, its handle argument (the      *)
(*            first of the two of fd_renumber), the errno it returned,     *)
(*            whether it made a host OS call (os) and whether it wrote to  *)
(*            guest memory (mem); for a call with a result besides its     *)
(*            errno also that result (out).  A call that panics has the    *)
(*            errno "panic".                                               *)
(* Spec has the calls on descriptors; SpecPath those that look into the    *)
(* host's directories, SpecTable those on the table alone and SpecPoll     *)
(* poll_oneoff, each with a wider range of arguments.                      *)
(***************************************************************************)
VARIABLES fds, hostfds, files, created, revoked, nopens, last

vars == <<fds, hostfds, files, created, revoked, nopens, last>>

\* The handles a guest passes: those the table can hold, and handle 2, which
\* it never holds.
Handles == 1 .. (3 + MaxOpens)
\* The guest addresses a guest passes: those of its memory and one out of bounds.
Pointers == 0 .. MemCells
\* i64::max_value() and u64::max_value(), at the width FilesizeBits.
I64_MAX == 2^(FilesizeBits - 1) - 1
U64_MAX == 2^FilesizeBits - 1

\* The rights masks a guest passes to fd_fdstat_set_rights and path_open:
\* pairs of a base mask and an inheriting mask.
RightsInputs ==
    { <<{__WASI_RIGHT_FD_READ}, {}>>,
      <<{__WASI_RIGHT_FD_WRITE}, {}>>,
      <<{__WASI_RIGHT_PATH_OPEN, __WASI_RIGHT_FD_READDIR}, {__WASI_RIGHT_FD_READ}>> }

\* The preopened directory's host path, as the bytes of "/s".
PreopenPath == <<47, 115>>

Call(op, fd, ret, os, mem) ==
    [op |-> op, fd |-> fd, ret |-> ret, os |-> os, mem |-> mem]

\* HashMap::remove
Remove(f, k) == [x \in DOMAIN f \ {k} |-> f[x]]
\* HashMap::insert
Insert(f, k, v) == [x \in DOMAIN f \cup {k} |-> IF x = k THEN v ELSE f[x]]

\* impl Drop for FdObject: an owned file is closed, a standard stream is not.
DropFdObject(fe, h) ==
    IF fe.needs_close /\ fe.descriptor = "File" THEN Remove(h, fe.rawfd) ELSE h

\* WasiCtx::get_fd_entry and get_fd_entry_mut: the errno of the lookup.
get_fd_entry(fd, rights_base, rights_inheriting) ==
    IF fd \notin DOMAIN fds THEN __WASI_EBADF
    ELSE IF rights_base \subseteq fds[fd].rights_base
            /\ rights_inheriting \subseteq fds[fd].rights_inheriting
         THEN __WASI_ESUCCESS
         ELSE __WASI_ENOTCAPABLE

\* enc_usize_byref, enc_fd_byref: the errno of writing one value at ptr.
enc_byref(ptr) == IF ptr < MemCells THEN __WASI_ESUCCESS ELSE __WASI_EFAULT

StdEntry(id, d, raw) ==
    [id |-> id, file_type |-> __WASI_FILETYPE_CHARACTER_DEVICE, descriptor |-> d,
     needs_close |-> TRUE, rawfd |-> raw, rights_base |-> RIGHTS_TTY_BASE,
     rights_inheriting |-> RIGHTS_TTY_BASE, preopen_path |-> {}]

Init ==
    /\ fds = [h \in {1, 3} |->
                CASE h = 1 -> StdEntry(1, "Stdout", 1)
                  [] h = 3 -> [id |-> 3, file_type |-> __WASI_FILETYPE_DIRECTORY,
                               descriptor |-> "File", needs_close |-> TRUE,
                               rawfd |-> 3,
                               rights_base |-> RIGHTS_DIRECTORY_BASE,
                               rights_inheriting |-> RIGHTS_DIRECTORY_INHERITING,
                               preopen_path |-> {PreopenPath}]]
    /\ hostfds = [r \in 0 .. 3 |->
                    IF r = 3 THEN [file |-> ".", read |-> TRUE, write |-> FALSE]
                    ELSE [file |-> "tty", read |-> TRUE, write |-> TRUE]]
    /\ files = [n \in {"a", "d"} |->
                    IF n = "a" THEN [kind |-> __WASI_FILETYPE_REGULAR_FILE, size |-> 0]
                    ELSE [kind |-> __WASI_FILETYPE_DIRECTORY, size |-> 0]]
    /\ created = [i \in {1, 3} |->
                    [rights_base |-> fds[i].rights_base,
                     rights_inheriting |-> fds[i].rights_inheriting]]
    /\ revoked = {}
    /\ nopens = 0
    /\ last = Call("none", 0, __WASI_ESUCCESS, FALSE, FALSE)

(***************************************************************************)
(* fd_close                                                                *)
(***************************************************************************)
\* A check of the preopen path that never finds one.
is_preopen_never(fdent) == FALSE

\* fdent.preopen_path.is_some(): "can't close preopened files"
is_preopen(fdent) == fdent.preopen_path # {}

fd_close(fd) ==
    IF fd \in DOMAIN fds /\ is_preopen(fds[fd])
    THEN /\ last' = Call("fd_close", fd, __WASI_ENOTSUP, FALSE, FALSE)
         /\ UNCHANGED <<fds, hostfds, files, created, revoked, nopens>>
    ELSE IF fd \in DOMAIN fds
    THEN /\ fds' = Remove(fds, fd)
         /\ hostfds' = DropFdObject([fds[fd] EXCEPT !.needs_close = TRUE], hostfds)
         /\ created' = Remove(created, fds[fd].id)
         /\ revoked' = revoked \ {fds[fd].id}
         /\ last' = Call("fd_close", fd, __WASI_ESUCCESS,
                         fds[fd].descriptor = "File", FALSE)
         /\ UNCHANGED <<files, nopens>>
    ELSE /\ last' = Call("fd_close", fd, __WASI_EBADF, FALSE, FALSE)
         /\ UNCHANGED <<fds, hostfds, files, created, revoked, nopens>>

(***************************************************************************)
(* fd_fdstat_set_rights                                                    *)
(***************************************************************************)
\* A subset check that lets every request through.
set_rights_never_refused(fe, fs_rights_base, fs_rights_inheriting) == FALSE

\* An update of the masks that forgets the inheriting one.
set_rights_base_only(fe, fs_rights_base, fs_rights_inheriting) ==
    [fe EXCEPT !.rights_base = fs_rights_base]

\* fe.rights_base & fs_rights_base != fs_rights_base
\*     || fe.rights_inheriting & fs_rights_inheriting != fs_rights_inheriting
set_rights_refused(fe, fs_rights_base, fs_rights_inheriting) ==
    \/ (fe.rights_base \cap fs_rights_base) # fs_rights_base
    \/ (fe.rights_inheriting \cap fs_rights_inheriting) # fs_rights_inheriting

\* fe.rights_base = fs_rights_base;
\* fe.rights_inheriting = fs_rights_inheriting;
set_rights(fe, fs_rights_base, fs_rights_inheriting) ==
    [fe EXCEPT !.rights_base = fs_rights_base,
               !.rights_inheriting = fs_rights_inheriting]

fd_fdstat_set_rights(fd, fs_rights_base, fs_rights_inheriting) ==
    IF fd \notin DOMAIN fds
    THEN /\ last' = Call("fd_fdstat_set_rights", fd, __WASI_EBADF, FALSE, FALSE)
         /\ UNCHANGED <<fds, hostfds, files, created, revoked, nopens>>
    ELSE IF set_rights_refused(fds[fd], fs_rights_base, fs_rights_inheriting)
    THEN /\ last' = Call("fd_fdstat_set_rights", fd, __WASI_ENOTCAPABLE, FALSE, FALSE)
         /\ UNCHANGED <<fds, hostfds, files, created, revoked, nopens>>
    ELSE /\ fds' = [fds EXCEPT
                        ![fd] = set_rights(@, fs_rights_base, fs_rights_inheriting)]
         /\ revoked' = IF __WASI_RIGHT_FD_WRITE \in fds[fd].rights_base
                          /\ __WASI_RIGHT_FD_WRITE \notin fs_rights_base
                       THEN revoked \cup {fds[fd].id} ELSE revoked
         /\ last' = Call("fd_fdstat_set_rights", fd, __WASI_ESUCCESS, FALSE, FALSE)
         /\ UNCHANGED <<hostfds, files, created, nopens>>

(***************************************************************************)
(* path_open                                                               *)
(***************************************************************************)
__WASI_O_CREAT == "O_CREAT"
__WASI_O_TRUNC == "O_TRUNC"
__WASI_FDFLAG_DSYNC == "DSYNC"
__WASI_FDFLAG_SYNC == "SYNC"
__WASI_FDFLAG_RSYNC == "RSYNC"

\* The paths a guest passes: a regular file, a directory and a name that is
\* not there until it is created.
PathInputs == {"a", "d", "n"}
\* The open requests a guest passes: the open flags, the base and inheriting
\* rights asked for, and the descriptor flags.
OpenInputs ==
    { <<{}, {__WASI_RIGHT_FD_READ}, {}, {}>>,
      <<{}, {__WASI_RIGHT_FD_WRITE}, {}, {}>>,
      <<{__WASI_O_CREAT}, {__WASI_RIGHT_FD_WRITE}, {}, {}>>,
      <<{__WASI_O_TRUNC}, {__WASI_RIGHT_FD_READ}, {}, {__WASI_FDFLAG_DSYNC}>>,
      <<{}, {__WASI_RIGHT_PATH_OPEN, __WASI_RIGHT_FD_READDIR},
        {__WASI_RIGHT_FD_READ}, {}>> }

\* The lowest raw descriptor the host has free, or MaxRawFd + 1 when none is.
LowestFree(used) ==
    IF \E r \in 0 .. MaxRawFd : r \notin used
    THEN CHOOSE r \in 0 .. MaxRawFd :
            r \notin used /\ \A q \in 0 .. r - 1 : q \in used
    ELSE MaxRawFd + 1

\* "which open mode do we need?"
open_read(fs_rights_base) ==
    fs_rights_base \cap {__WASI_RIGHT_FD_READ, __WASI_RIGHT_FD_READDIR} # {}
open_write(fs_rights_base) ==
    fs_rights_base \cap {__WASI_RIGHT_FD_DATASYNC, __WASI_RIGHT_FD_WRITE,
                         __WASI_RIGHT_FD_ALLOCATE,
                         __WASI_RIGHT_FD_FILESTAT_SET_SIZE} # {}

\* "which rights are needed on the dirfd?": the base rights ...
path_open_needed_base(oflags) ==
    {__WASI_RIGHT_PATH_OPEN}
    \cup (IF __WASI_O_CREAT \in oflags THEN {__WASI_RIGHT_PATH_CREATE_FILE} ELSE {})
    \cup (IF __WASI_O_TRUNC \in oflags
          THEN {__WASI_RIGHT_PATH_FILESTAT_SET_SIZE} ELSE {})
\* ... and the inheriting rights.
path_open_needed_inheriting(fs_rights_base, fs_rights_inheriting, fs_flags) ==
    (fs_rights_base \cup fs_rights_inheriting)
    \cup (IF __WASI_FDFLAG_DSYNC \in fs_flags THEN {__WASI_RIGHT_FD_DATASYNC} ELSE {})
    \cup (IF fs_flags \cap {__WASI_FDFLAG_RSYNC, __WASI_FDFLAG_SYNC} # {}
          THEN {__WASI_RIGHT_FD_SYNC} ELSE {})

\* path_get, up to the resolution of the path: the errno of the lookup of the
\* base directory.
path_get(dirfd, needed_base, needed_inheriting) ==
    IF dirfd \notin DOMAIN fds THEN __WASI_EBADF
    ELSE IF fds[dirfd].file_type # __WASI_FILETYPE_DIRECTORY THEN __WASI_ENOTDIR
    ELSE get_fd_entry(dirfd, needed_base, needed_inheriting)

\* The host's openat(dir, path, flags, 0o666) on the directory behind the
\* preopen: its errno.
openat_errno(path, oflags, write) ==
    IF path \notin DOMAIN files
    THEN IF __WASI_O_CREAT \in oflags THEN __WASI_ESUCCESS ELSE __WASI_ENOENT
    ELSE IF files[path].kind = __WASI_FILETYPE_DIRECTORY
            /\ (write \/ __WASI_O_CREAT \in oflags)
         THEN __WASI_EISDIR
         ELSE __WASI_ESUCCESS

\* The directory after a successful openat: O_CREAT makes a missing file,
\* O_TRUNC empties a regular one.
openat_files(path, oflags) ==
    IF path \notin DOMAIN files
    THEN Insert(files, path, [kind |-> __WASI_FILETYPE_REGULAR_FILE, size |-> 0])
    ELSE IF __WASI_O_TRUNC \in oflags
            /\ files[path].kind = __WASI_FILETYPE_REGULAR_FILE
         THEN [files EXCEPT ![path].size = 0]
         ELSE files

\* determine_type_rights: the type of an open file and the most it may hold.
determine_type_rights(kind) ==
    IF kind = __WASI_FILETYPE_DIRECTORY
    THEN <<__WASI_FILETYPE_DIRECTORY, RIGHTS_DIRECTORY_BASE,
           RIGHTS_DIRECTORY_INHERITING>>
    ELSE IF kind = __WASI_FILETYPE_REGULAR_FILE
    THEN <<__WASI_FILETYPE_REGULAR_FILE, RIGHTS_REGULAR_FILE_BASE,
           RIGHTS_REGULAR_FILE_INHERITING>>
    ELSE <<__WASI_FILETYPE_CHARACTER_DEVICE, RIGHTS_TTY_BASE, RIGHTS_TTY_BASE>>

\* determine_type_and_access_rights: the rights of determine_type_rights and,
\* for a directory or a regular file, those of the access mode.
determine_type_and_access_rights(kind, read, write) ==
    LET t == determine_type_rights(kind)
    IN  IF t[1] \in {__WASI_FILETYPE_DIRECTORY, __WASI_FILETYPE_REGULAR_FILE}
        THEN <<t[1],
               t[2] \cup (IF read THEN {__WASI_RIGHT_FD_READ} ELSE {})
                    \cup (IF write THEN {__WASI_RIGHT_FD_WRITE} ELSE {}),
               t[3]>>
        ELSE t

\* The entry path_open makes of the file it opened: FdEntry::from(file), its
\* rights cut to those determine_type_rights allows.
path_open_entry(id, kind, rawfd, read, write, fs_rights_base, fs_rights_inheriting) ==
    LET max == determine_type_rights(kind)
        got == determine_type_and_access_rights(kind, read, write)
    IN  [id |-> id, file_type |-> got[1], descriptor |-> "File",
         needs_close |-> TRUE, rawfd |-> rawfd,
         rights_base |-> got[2] \cap max[2],
         rights_inheriting |-> got[3] \cap max[3],
         preopen_path |-> {}]

\* An allocation that never hands a freed handle out again: one above the
\* highest handle in use.
insert_fd_entry_handle_next ==
    CHOOSE h \in 3 .. (5 + MaxOpens) :
        h \notin DOMAIN fds /\ h - 1 \in DOMAIN fds /\ \A g \in DOMAIN fds : g < h

\* WasiCtx::insert_fd_entry: the lowest handle from 3 up that is not in use.
insert_fd_entry_handle ==
    CHOOSE h \in 3 .. (4 + MaxOpens) :
        h \notin DOMAIN fds /\ \A g \in 3 .. h - 1 : g \in DOMAIN fds

\* The return of path_open when the open failed with e: the sentinel handle
\* is written to fd_out_ptr first.
path_open_failed(dirfd, e, os, fd_out_ptr) ==
    /\ last' = Call("path_open", dirfd,
                    IF enc_byref(fd_out_ptr) # __WASI_ESUCCESS
                    THEN enc_byref(fd_out_ptr) ELSE e,
                    os, enc_byref(fd_out_ptr) = __WASI_ESUCCESS)
    /\ UNCHANGED <<fds, hostfds, files, created, revoked, nopens>>

path_open(dirfd, path, oflags, fs_rights_base, fs_rights_inheriting, fs_flags, fd_out_ptr) ==
    LET read == open_read(fs_rights_base)
        write == open_write(fs_rights_base)
        lookup == path_get(dirfd, path_open_needed_base(oflags),
                           path_open_needed_inheriting(fs_rights_base,
                               fs_rights_inheriting, fs_flags))
        \* the directory handle the PathGet owns, and the new file's
        dir == LowestFree(DOMAIN hostfds)
        new_fd == LowestFree(DOMAIN hostfds \cup {dir})
        kind == IF path \in DOMAIN files THEN files[path].kind
                ELSE __WASI_FILETYPE_REGULAR_FILE
        fe == path_open_entry(insert_fd_entry_handle, kind, new_fd, read, write,
                              fs_rights_base, fs_rights_inheriting)
    IN  IF lookup # __WASI_ESUCCESS
        THEN path_open_failed(dirfd, lookup, FALSE, fd_out_ptr)
        ELSE IF dir > MaxRawFd
        THEN path_open_failed(dirfd, __WASI_EMFILE, TRUE, fd_out_ptr)
        ELSE IF new_fd > MaxRawFd
        THEN path_open_failed(dirfd, __WASI_EMFILE, TRUE, fd_out_ptr)
        ELSE IF openat_errno(path, oflags, write) # __WASI_ESUCCESS
        THEN path_open_failed(dirfd, openat_errno(path, oflags, write), TRUE, fd_out_ptr)
        ELSE /\ nopens < MaxOpens
             /\ nopens' = nopens + 1
             /\ files' = openat_files(path, oflags)
             /\ hostfds' = Insert(hostfds, new_fd,
                                  [file |-> path, read |-> read \/ ~write,
                                   write |-> write])
             /\ fds' = Insert(fds, insert_fd_entry_handle, fe)
             /\ created' = Insert(created, fe.id,
                                  [rights_base |-> fe.rights_base,
                                   rights_inheriting |-> fe.rights_inheriting])
             /\ last' = Call("path_open", dirfd, enc_byref(fd_out_ptr), TRUE,
                             enc_byref(fd_out_ptr) = __WASI_ESUCCESS)
             /\ UNCHANGED revoked

(***************************************************************************)
(* fd_renumber                                                             *)
(***************************************************************************)
\* A preopen check that looks at the source entry only.
renumber_refused_from_only(fe_from, fe_to) == is_preopen(fe_from)

\* "Don't allow renumbering over a pre-opened resource."
renumber_refused(fe_from, fe_to) == is_preopen(fe_from) \/ is_preopen(fe_to)

\* The key of the entry fd_renumber removes once dup2 has succeeded.
renumber_removed(from, rawfd_from) == rawfd_from

fd_renumber(from, to) ==
    IF from \notin DOMAIN fds \/ to \notin DOMAIN fds
    THEN /\ last' = Call("fd_renumber", from, __WASI_EBADF, FALSE, FALSE)
         /\ UNCHANGED <<fds, hostfds, files, created, revoked, nopens>>
    ELSE IF renumber_refused(fds[from], fds[to])
    THEN /\ last' = Call("fd_renumber", from, __WASI_ENOTSUP, FALSE, FALSE)
         /\ UNCHANGED <<fds, hostfds, files, created, revoked, nopens>>
    ELSE LET rawfd_from == fds[from].rawfd
             rawfd_to == fds[to].rawfd
             \* nix::unistd::dup2(rawfd_from, rawfd_to)
             dupped == Insert(hostfds, rawfd_to, hostfds[rawfd_from])
             gone == renumber_removed(from, rawfd_from)
         IN  IF rawfd_from \notin DOMAIN hostfds
             THEN /\ last' = Call("fd_renumber", from, __WASI_EBADF, TRUE, FALSE)
                  /\ UNCHANGED <<fds, hostfds, files, created, revoked, nopens>>
             ELSE IF gone \in DOMAIN fds
             THEN /\ fds' = Remove(fds, gone)
                  /\ hostfds' = DropFdObject(fds[gone], dupped)
                  /\ created' = Remove(created, fds[gone].id)
                  /\ revoked' = revoked \ {fds[gone].id}
                  /\ last' = Call("fd_renumber", from, __WASI_ESUCCESS, TRUE, FALSE)
                  /\ UNCHANGED <<files, nopens>>
             ELSE /\ hostfds' = dupped
                  /\ last' = Call("fd_renumber", from, __WASI_ESUCCESS, TRUE, FALSE)
                  /\ UNCHANGED <<fds, files, created, revoked, nopens>>


(***************************************************************************)
(* The host's files, as the calls below see them.  The offset of an open   *)
(* file description is not kept: a read or a write through one lands at    *)
(* any offset up to the size of the file.  The file system has room for    *)
(* MaxSize bytes in a file.                                                *)
(***************************************************************************)
Max(a, b) == IF a > b THEN a ELSE b
Min(a, b) == IF a < b THEN a ELSE b

IsRegular(d) ==
    d.file \in DOMAIN files /\ files[d.file].kind = __WASI_FILETYPE_REGULAR_FILE

\* The offsets an open file description may be at.
Offsets(d) == IF IsRegular(d) THEN 0 .. files[d.file].size ELSE {0}

\* write(2), pwrite(2) of n bytes at offset pos through the description d:
\* the errno and the files after it.
HostWrite(d, pos, n, positioned) ==
    IF ~d.write THEN [errno |-> __WASI_EBADF, files |-> files]
    ELSE IF ~IsRegular(d)
    THEN [errno |-> IF positioned THEN __WASI_ESPIPE ELSE __WASI_ESUCCESS,
          files |-> files]
    ELSE IF pos + n > MaxSize THEN [errno |-> __WASI_EFBIG, files |-> files]
    ELSE [errno |-> __WASI_ESUCCESS,
          files |-> [files EXCEPT ![d.file].size = Max(@, pos + n)]]

\* read(2), pread(2) of n bytes at offset pos through the description d:
\* the errno and the number of bytes read.
HostRead(d, pos, n, positioned) ==
    IF ~d.read THEN [errno |-> __WASI_EBADF, nread |-> 0]
    ELSE IF IsRegular(d)
    THEN [errno |-> __WASI_ESUCCESS,
          nread |-> Min(n, Max(0, files[d.file].size - pos))]
    ELSE IF d.file = "tty"
    THEN [errno |-> IF positioned THEN __WASI_ESPIPE ELSE __WASI_ESUCCESS,
          nread |-> IF positioned THEN 0 ELSE n]
    ELSE [errno |-> __WASI_EISDIR, nread |-> 0]

\* dec_iovec_slice: the errno of decoding the iovec array at iovs_ptr; the
\* array holds one buffer of IoLen bytes.
dec_iovec_slice(iovs_ptr) ==
    IF iovs_ptr < MemCells THEN __WASI_ESUCCESS ELSE __WASI_EFAULT

\* The return of a call that fails with e before it has touched the host or
\* the guest's memory.
Refused(op, fd, e) ==
    /\ last' = Call(op, fd, e, FALSE, FALSE)
    /\ UNCHANGED <<fds, hostfds, files, created, revoked, nopens>>

\* The return of a call whose host operation failed with e.
HostFailed(op, fd, e) ==
    /\ last' = Call(op, fd, e, TRUE, FALSE)
    /\ UNCHANGED <<fds, hostfds, files, created, revoked, nopens>>

(***************************************************************************)
(* fd_write, fd_read                                                       *)
(***************************************************************************)
\* A write that asks no right of the entry.
fd_write_rights_none == {}

\* The right fd_write asks of the entry.
fd_write_rights == {__WASI_RIGHT_FD_WRITE}

fd_write(fd, iovs_ptr, nwritten) ==
    IF dec_iovec_slice(iovs_ptr) # __WASI_ESUCCESS
    THEN Refused("fd_write", fd, dec_iovec_slice(iovs_ptr))
    ELSE IF get_fd_entry(fd, fd_write_rights, {}) # __WASI_ESUCCESS
    THEN Refused("fd_write", fd, get_fd_entry(fd, fd_write_rights, {}))
    ELSE IF fds[fd].descriptor = "Stdin"
    THEN Refused("fd_write", fd, __WASI_EBADF)
    ELSE LET \* io::stdout() is the host's descriptor 1
             d == hostfds[IF fds[fd].descriptor = "File" THEN fds[fd].rawfd ELSE 1]
         IN  \E pos \in Offsets(d) :
                LET w == HostWrite(d, pos, IoLen, FALSE)
                IN  IF w.errno # __WASI_ESUCCESS
                    THEN HostFailed("fd_write", fd, w.errno)
                    ELSE /\ files' = w.files
                         /\ last' = Call("fd_write", fd, enc_byref(nwritten), TRUE,
                                         enc_byref(nwritten) = __WASI_ESUCCESS)
                         /\ UNCHANGED <<fds, hostfds, created, revoked, nopens>>

fd_read(fd, iovs_ptr, nread) ==
    IF dec_iovec_slice(iovs_ptr) # __WASI_ESUCCESS
    THEN Refused("fd_read", fd, dec_iovec_slice(iovs_ptr))
    ELSE IF get_fd_entry(fd, {__WASI_RIGHT_FD_READ}, {}) # __WASI_ESUCCESS
    THEN Refused("fd_read", fd, get_fd_entry(fd, {__WASI_RIGHT_FD_READ}, {}))
    ELSE IF fds[fd].descriptor \notin {"File", "Stdin"}
    THEN Refused("fd_read", fd, __WASI_EBADF)
    ELSE LET \* io::stdin() is the host's descriptor 0
             d == hostfds[IF fds[fd].descriptor = "File" THEN fds[fd].rawfd ELSE 0]
         IN  \E pos \in Offsets(d) :
                LET r == HostRead(d, pos, IoLen, FALSE)
                IN  IF r.errno # __WASI_ESUCCESS
                    THEN HostFailed("fd_read", fd, r.errno)
                    ELSE /\ last' = Call("fd_read", fd, enc_byref(nread), TRUE,
                                         r.nread > 0
                                         \/ enc_byref(nread) = __WASI_ESUCCESS)
                         /\ UNCHANGED <<fds, hostfds, files, created, revoked,
                                        nopens>>

(***************************************************************************)
(* fd_pread, fd_pwrite                                                     *)
(***************************************************************************)
\* The file offsets a guest passes.
OffsetInputs == {0, U64_MAX}

fd_pread(fd, iovs_ptr, offset, nread) ==
    IF dec_iovec_slice(iovs_ptr) # __WASI_ESUCCESS
    THEN Refused("fd_pread", fd, dec_iovec_slice(iovs_ptr))
    ELSE IF get_fd_entry(fd, {__WASI_RIGHT_FD_READ}, {}) # __WASI_ESUCCESS
    THEN Refused("fd_pread", fd, get_fd_entry(fd, {__WASI_RIGHT_FD_READ}, {}))
    ELSE IF fds[fd].descriptor # "File"
    THEN Refused("fd_pread", fd, __WASI_EBADF)
    ELSE IF offset > I64_MAX
    THEN Refused("fd_pread", fd, __WASI_EIO)
    ELSE LET r == HostRead(hostfds[fds[fd].rawfd], offset, IoLen, TRUE)
         IN  IF r.errno # __WASI_ESUCCESS
             THEN HostFailed("fd_pread", fd, r.errno)
             ELSE /\ last' = Call("fd_pread", fd, enc_byref(nread), TRUE,
                                  r.nread > 0 \/ enc_byref(nread) = __WASI_ESUCCESS)
                  /\ UNCHANGED <<fds, hostfds, files, created, revoked, nopens>>

\* The right fd_pwrite asks of the entry.
fd_pwrite_rights == {__WASI_RIGHT_FD_READ}

fd_pwrite(fd, iovs_ptr, offset, nwritten) ==
    IF dec_iovec_slice(iovs_ptr) # __WASI_ESUCCESS
    THEN Refused("fd_pwrite", fd, dec_iovec_slice(iovs_ptr))
    ELSE IF get_fd_entry(fd, fd_pwrite_rights, {}) # __WASI_ESUCCESS
    THEN Refused("fd_pwrite", fd, get_fd_entry(fd, fd_pwrite_rights, {}))
    ELSE IF fds[fd].descriptor # "File"
    THEN Refused("fd_pwrite", fd, __WASI_EBADF)
    ELSE IF offset > I64_MAX
    THEN Refused("fd_pwrite", fd, __WASI_EIO)
    ELSE LET w == HostWrite(hostfds[fds[fd].rawfd], offset, IoLen, TRUE)
         IN  IF w.errno # __WASI_ESUCCESS
             THEN HostFailed("fd_pwrite", fd, w.errno)
             ELSE /\ files' = w.files
                  /\ last' = Call("fd_pwrite", fd, enc_byref(nwritten), TRUE,
                                  enc_byref(nwritten) = __WASI_ESUCCESS)
                  /\ UNCHANGED <<fds, hostfds, created, revoked, nopens>>

(***************************************************************************)
(* fd_allocate                                                             *)
(***************************************************************************)
\* The (offset, len) pairs a guest passes: the third one asks for a byte
\* more than the host lets a file hold.
AllocateInputs == { <<0, 0>>, <<0, 1>>, <<MaxSize, 1>>, <<I64_MAX, 1>>, <<U64_MAX, 1>> }

\* A length that takes every file for a full one.
metadata_len_full(d) == MaxSize

\* File::metadata().len()
metadata_len(d) == IF d.file \in DOMAIN files THEN files[d.file].size ELSE 0

\* File::set_len(wanted_size), ftruncate(2): the errno.
set_len_errno(d, wanted_size) ==
    IF ~d.write \/ ~IsRegular(d) THEN __WASI_EINVAL
    ELSE IF wanted_size > MaxSize THEN __WASI_EFBIG
    ELSE __WASI_ESUCCESS

fd_allocate(fd, offset, len) ==
    IF get_fd_entry(fd, {__WASI_RIGHT_FD_ALLOCATE}, {}) # __WASI_ESUCCESS
    THEN Refused("fd_allocate", fd, get_fd_entry(fd, {__WASI_RIGHT_FD_ALLOCATE}, {}))
    ELSE IF fds[fd].descriptor # "File"
    THEN Refused("fd_allocate", fd, __WASI_EBADF)
    ELSE LET d == hostfds[fds[fd].rawfd]
             current_size == metadata_len(d)
             wanted_size == offset + len
         IN  IF wanted_size > U64_MAX
             THEN HostFailed("fd_allocate", fd, __WASI_E2BIG)
             ELSE IF wanted_size > I64_MAX
             THEN HostFailed("fd_allocate", fd, __WASI_E2BIG)
             ELSE IF wanted_size > current_size
                     /\ set_len_errno(d, wanted_size) # __WASI_ESUCCESS
             THEN HostFailed("fd_allocate", fd, set_len_errno(d, wanted_size))
             ELSE /\ files' = IF wanted_size > current_size
                              THEN [files EXCEPT ![d.file].size = wanted_size]
                              ELSE files
                  /\ last' = Call("fd_allocate", fd, __WASI_ESUCCESS, TRUE, FALSE)
                  /\ UNCHANGED <<fds, hostfds, created, revoked, nopens>>

(***************************************************************************)
(* fd_readdir, path_readlink                                               *)
(***************************************************************************)
\* dec_slice_of, dec_slice_of_mut: the errno of borrowing the guest's bytes
\* at ptr.
dec_slice_of(ptr) == IF ptr < MemCells THEN __WASI_ESUCCESS ELSE __WASI_EFAULT

\* fdopendir(3) on the description d: the errno.
fdopendir_errno(d) ==
    IF d.file = "."
       \/ (d.file \in DOMAIN files
           /\ files[d.file].kind = __WASI_FILETYPE_DIRECTORY)
    THEN __WASI_ESUCCESS
    ELSE __WASI_ENOTDIR

fd_readdir(fd, buf, buf_used) ==
    IF enc_byref(buf_used) # __WASI_ESUCCESS
    THEN Refused("fd_readdir", fd, enc_byref(buf_used))
    ELSE \* buf_used holds 0 from here on
         IF get_fd_entry(fd, {__WASI_RIGHT_FD_READDIR}, {}) # __WASI_ESUCCESS
    THEN /\ last' = Call("fd_readdir", fd,
                         get_fd_entry(fd, {__WASI_RIGHT_FD_READDIR}, {}),
                         FALSE, TRUE)
         /\ UNCHANGED <<fds, hostfds, files, created, revoked, nopens>>
    ELSE IF dec_slice_of(buf) # __WASI_ESUCCESS
    THEN /\ last' = Call("fd_readdir", fd, dec_slice_of(buf), FALSE, TRUE)
         /\ UNCHANGED <<fds, hostfds, files, created, revoked, nopens>>
    ELSE /\ last' = Call("fd_readdir", fd, fdopendir_errno(hostfds[fds[fd].rawfd]),
                         TRUE, TRUE)
         /\ UNCHANGED <<fds, hostfds, files, created, revoked, nopens>>

\* readlinkat(2) of path in the directory behind the preopen: the errno (no
\* file of the directory is a symbolic link).
readlinkat_errno(path) ==
    IF path \in DOMAIN files THEN __WASI_EINVAL ELSE __WASI_ENOENT

path_readlink(dirfd, path_ptr, path, buf_ptr, buf_used) ==
    IF enc_byref(buf_used) # __WASI_ESUCCESS
    THEN Refused("path_readlink", dirfd, enc_byref(buf_used))
    ELSE \* buf_used holds 0 from here on
         IF dec_slice_of(path_ptr) # __WASI_ESUCCESS
    THEN /\ last' = Call("path_readlink", dirfd, dec_slice_of(path_ptr), FALSE, TRUE)
         /\ UNCHANGED <<fds, hostfds, files, created, revoked, nopens>>
    ELSE IF dec_slice_of(buf_ptr) # __WASI_ESUCCESS
    THEN /\ last' = Call("path_readlink", dirfd, dec_slice_of(buf_ptr), FALSE, TRUE)
         /\ UNCHANGED <<fds, hostfds, files, created, revoked, nopens>>
    ELSE IF path_get(dirfd, {__WASI_RIGHT_PATH_READLINK}, {}) # __WASI_ESUCCESS
    THEN /\ last' = Call("path_readlink", dirfd,
                         path_get(dirfd, {__WASI_RIGHT_PATH_READLINK}, {}),
                         FALSE, TRUE)
         /\ UNCHANGED <<fds, hostfds, files, created, revoked, nopens>>
    ELSE IF LowestFree(DOMAIN hostfds) > MaxRawFd
    THEN /\ last' = Call("path_readlink", dirfd, __WASI_EMFILE, TRUE, TRUE)
         /\ UNCHANGED <<fds, hostfds, files, created, revoked, nopens>>
    ELSE /\ last' = Call("path_readlink", dirfd, readlinkat_errno(path), TRUE, TRUE)
         /\ UNCHANGED <<fds, hostfds, files, created, revoked, nopens>>

\* The (array, result) address pairs a guest passes to an I/O call: both in
\* its memory, or one of them outside.
IoInputs == { p \in Pointers \X Pointers : p[1] < MemCells \/ p[2] < MemCells }

\* The address a guest passes for fd_out: outside its memory for one request
\* on a file that is there and one on a name that is not.
FdOutInputs(path, o) ==
    IF path \in {"a", "n"} /\ o[1] = {} /\ o[2] = {__WASI_RIGHT_FD_READ}
    THEN Pointers ELSE {0}

\* The (path address, path, buffer address, result address) a guest passes to
\* path_readlink: a name that is there or not, or one address outside memory.
ReadlinkInputs ==
    { <<0, "a", 0, 0>>, <<0, "n", 0, 0>>, <<MemCells, "a", 0, 0>>,
      <<0, "a", MemCells, 0>>, <<0, "a", 0, MemCells>> }

Next ==
    \/ \E fd \in Handles : fd_close(fd)
    \/ \E fd \in Handles, r \in RightsInputs : fd_fdstat_set_rights(fd, r[1], r[2])
    \/ \E dirfd \in Handles, path \in PathInputs, o \in OpenInputs :
          \E fd_out_ptr \in FdOutInputs(path, o) :
             path_open(dirfd, path, o[1], o[2], o[3], o[4], fd_out_ptr)
    \/ \E from \in Handles, to \in Handles : fd_renumber(from, to)
    \/ \E fd \in Handles, p \in IoInputs : fd_write(fd, p[1], p[2])
    \/ \E fd \in Handles, p \in IoInputs : fd_read(fd, p[1], p[2])
    \/ \E fd \in Handles, p \in IoInputs, offset \in OffsetInputs :
          fd_pread(fd, p[1], offset, p[2])
    \/ \E fd \in Handles, p \in IoInputs, offset \in OffsetInputs :
          fd_pwrite(fd, p[1], offset, p[2])
    \/ \E fd \in Handles, a \in AllocateInputs : fd_allocate(fd, a[1], a[2])
    \/ \E fd \in Handles, p \in IoInputs : fd_readdir(fd, p[1], p[2])
    \/ \E dirfd \in Handles, l \in ReadlinkInputs :
          path_readlink(dirfd, l[1], l[2], l[3], l[4])

Spec == Init /\ [][Next]_vars

(***************************************************************************)
(* The host's tree around the preopened directory.  A host path is the     *)
(* sequence of its names from the host's root: the preopened directory is  *)
(* /s, its regular files and directories are those of `files`, and it      *)
(* holds the symbolic links of SymLinks, which no modelled call changes.   *)
(* /etc/passwd lies outside of it.  A guest path, and the target of a      *)
(* symbolic link, is the sequence of its segments, "/" first when it is    *)
(* absolute.                                                               *)
(***************************************************************************)
PreopenDir == <<"s">>

\* The symbolic links of the host: host path -> target.
SymLinks ==
    [p \in { <<"s", "up">>, <<"s", "abs">>, <<"s", "l">>, <<"s", "in">>,
             <<"s", "d", "out">> } |->
        CASE p = <<"s", "up">> -> <<"..">>
          [] p = <<"s", "in">> -> <<"/", "s", "a">>
          [] p = <<"s", "abs">> -> <<"/", "etc">>
          [] p = <<"s", "l">> -> <<"d">>
          [] p = <<"s", "d", "out">> -> <<"..", "..", "etc", "passwd">>]

\* The type of the file at the host path p, "none" when there is none.
HostKind(p) ==
    IF p \in DOMAIN SymLinks THEN __WASI_FILETYPE_SYMBOLIC_LINK
    ELSE IF p \in { <<>>, <<"etc">>, PreopenDir } THEN __WASI_FILETYPE_DIRECTORY
    ELSE IF p = <<"etc", "passwd">> THEN __WASI_FILETYPE_REGULAR_FILE
    ELSE IF Len(p) = 2 /\ p[1] = "s" /\ p[2] \in DOMAIN files THEN files[p[2]].kind
    ELSE "none"

\* The host path of the directory an open file description refers to.
DirPath(d) == IF d.file = "." THEN PreopenDir ELSE PreopenDir \o <<d.file>>

\* p lies at or below the preopened directory.
WithinPreopen(p) ==
    Len(p) >= Len(PreopenDir) /\ SubSeq(p, 1, Len(PreopenDir)) = PreopenDir

\* The host's own resolution of the path `path` from the directory cur, every
\* symbolic link followed: the errno and the host path of the file found.
RECURSIVE namei(_, _)
namei(cur, path) ==
    IF path = <<>> THEN [errno |-> __WASI_ESUCCESS, obj |-> cur]
    ELSE LET head == Head(path)
             tail == Tail(path)
             p == cur \o <<head>>
         IN  IF head = "/" THEN namei(<<>>, tail)
             ELSE IF head = "." THEN namei(cur, tail)
             ELSE IF head = ".."
             THEN namei(IF cur = <<>> THEN cur ELSE SubSeq(cur, 1, Len(cur) - 1), tail)
             ELSE IF HostKind(p) = "none"
             THEN [errno |-> __WASI_ENOENT, obj |-> p]
             ELSE IF HostKind(p) = __WASI_FILETYPE_SYMBOLIC_LINK
             THEN namei(cur, SymLinks[p] \o tail)
             ELSE IF HostKind(p) = __WASI_FILETYPE_DIRECTORY THEN namei(p, tail)
             ELSE IF tail = <<>> THEN [errno |-> __WASI_ESUCCESS, obj |-> p]
             ELSE [errno |-> __WASI_ENOTDIR, obj |-> p]

\* fstatat(2) of the name `name` in the directory dir: the errno and the host
\* path of the file whose status it returns.  With AT_SYMLINK_NOFOLLOW a
\* symbolic link is the file; without it the host follows the link.
fstatat(dir, name, nofollow) ==
    IF name = "." THEN [errno |-> __WASI_ESUCCESS, obj |-> dir]
    ELSE IF HostKind(dir \o <<name>>) = "none"
    THEN [errno |-> __WASI_ENOENT, obj |-> dir \o <<name>>]
    ELSE IF HostKind(dir \o <<name>>) = __WASI_FILETYPE_SYMBOLIC_LINK /\ ~nofollow
    THEN namei(dir, SymLinks[dir \o <<name>>])
    ELSE [errno |-> __WASI_ESUCCESS, obj |-> dir \o <<name>>]

(***************************************************************************)
(* The path resolver, path_get: the walk over the segments of the path     *)
(* with a stack of open directories whose bottom is the base directory.    *)
(***************************************************************************)
__WASI_LOOKUP_SYMLINK_FOLLOW == "SYMLINK_FOLLOW"

\* The number of symbolic links one resolution expands.
MAX_SYMLINK_EXPANSIONS == 32

\* The result of a resolution: the errno and, on success, the directory the
\* walk ended in and the final component, unopened.
Resolved(e, dir, name) == [errno |-> e, dir |-> dir, name |-> name]

\* The walk: dir_stack is the stack of directories (host paths), path the
\* segments left, hops the number of links expanded so far.
RECURSIVE path_get_walk(_, _, _, _, _)
path_get_walk(dir_stack, path, hops, follow, needs_final_component) ==
    LET top == dir_stack[Len(dir_stack)]
    IN  IF path = <<>> THEN Resolved(__WASI_ESUCCESS, top, ".")
        ELSE LET head == Head(path)
                 tail == Tail(path)
                 p == top \o <<head>>
             IN  IF head = "/" THEN Resolved(__WASI_ENOTCAPABLE, top, head)
                 ELSE IF head = "."
                 THEN path_get_walk(dir_stack, tail, hops, follow,
                                    needs_final_component)
                 ELSE IF head = ".."
                 THEN IF Len(dir_stack) = 1
                      THEN Resolved(__WASI_ENOTCAPABLE, top, head)
                      ELSE path_get_walk(SubSeq(dir_stack, 1, Len(dir_stack) - 1),
                                         tail, hops, follow, needs_final_component)
                 ELSE IF tail # <<>>
                 THEN \* openat(top, head, O_DIRECTORY | O_NOFOLLOW)
                      IF HostKind(p) = __WASI_FILETYPE_DIRECTORY
                      THEN path_get_walk(Append(dir_stack, p), tail, hops, follow,
                                         needs_final_component)
                      ELSE IF HostKind(p) = __WASI_FILETYPE_SYMBOLIC_LINK
                      THEN IF hops + 1 > MAX_SYMLINK_EXPANSIONS
                           THEN Resolved(__WASI_ELOOP, top, head)
                           ELSE path_get_walk(dir_stack, SymLinks[p] \o tail,
                                              hops + 1, follow,
                                              needs_final_component)
                      ELSE IF HostKind(p) = "none"
                      THEN Resolved(__WASI_ENOENT, top, head)
                      ELSE Resolved(__WASI_ENOTDIR, top, head)
                 ELSE IF follow /\ ~needs_final_component
                         /\ HostKind(p) = __WASI_FILETYPE_SYMBOLIC_LINK
                 THEN IF hops + 1 > MAX_SYMLINK_EXPANSIONS
                      THEN Resolved(__WASI_ELOOP, top, head)
                      ELSE path_get_walk(dir_stack, SymLinks[p], hops + 1, follow,
                                         needs_final_component)
                 ELSE Resolved(__WASI_ESUCCESS, top, head)

\* path_get, from the resolution of the path on: the walk from the base
\* directory base.
path_get_resolve(base, dirflags, path, needs_final_component) ==
    IF path = <<>> THEN Resolved(__WASI_EINVAL, base, ".")
    ELSE path_get_walk(<<base>>, path, 0,
                       __WASI_LOOKUP_SYMLINK_FOLLOW \in dirflags,
                       needs_final_component)

(***************************************************************************)
(* path_filestat_get                                                       *)
(***************************************************************************)
\* A call with a result besides its errno: out is what it found or wrote.
CallOut(op, fd, ret, os, mem, out) ==
    [op |-> op, fd |-> fd, ret |-> ret, os |-> os, mem |-> mem, out |-> out]

\* The guest paths a guest passes to path_filestat_get.
StatPathInputs ==
    { <<>>, <<".">>, <<"a">>, <<"d">>, <<"n">>, <<"a", "x">>,
      <<"..">>, <<"..", "etc", "passwd">>, <<"d", "..">>, <<"d", "..", "a">>,
      <<"d", "..", "..", "etc">>, <<"/", "etc", "passwd">>,
      <<"up">>, <<"up", "etc", "passwd">>, <<"abs">>, <<"abs", "passwd">>,
      <<"l">>, <<"l", "out">>, <<"d", "out">>, <<"out">> }

\* The lookup flags a guest passes.
LookupInputs == { {}, {__WASI_LOOKUP_SYMLINK_FOLLOW} }

\* let atflags = match dirflags { 0 => AtFlags::empty(),
\*                                _ => AtFlags::AT_SYMLINK_NOFOLLOW };
filestat_atflags_nofollow(dirflags) == dirflags # {}

\* path_filestat_set_times:
\* let atflags = match dirflags { __WASI_LOOKUP_SYMLINK_FOLLOW => 0,
\*                                _ => libc::AT_SYMLINK_NOFOLLOW };
set_times_atflags_nofollow(dirflags) == dirflags # {__WASI_LOOKUP_SYMLINK_FOLLOW}

path_filestat_get(dirfd, dirflags, path_ptr, path, filestat_ptr) ==
    IF dec_slice_of(path_ptr) # __WASI_ESUCCESS
    THEN Refused("path_filestat_get", dirfd, dec_slice_of(path_ptr))
    ELSE IF path_get(dirfd, {__WASI_RIGHT_PATH_FILESTAT_GET}, {}) # __WASI_ESUCCESS
    THEN Refused("path_filestat_get", dirfd,
                 path_get(dirfd, {__WASI_RIGHT_PATH_FILESTAT_GET}, {}))
    ELSE IF fds[dirfd].rawfd \notin DOMAIN hostfds
    THEN HostFailed("path_filestat_get", dirfd, __WASI_EBADF)
    ELSE IF LowestFree(DOMAIN hostfds) > MaxRawFd
    THEN HostFailed("path_filestat_get", dirfd, __WASI_EMFILE)
    ELSE LET r == path_get_resolve(DirPath(hostfds[fds[dirfd].rawfd]), dirflags,
                                   path, FALSE)
             st == fstatat(r.dir, r.name, filestat_atflags_nofollow(dirflags))
         IN  IF r.errno # __WASI_ESUCCESS
             THEN HostFailed("path_filestat_get", dirfd, r.errno)
             ELSE IF st.errno # __WASI_ESUCCESS
             THEN HostFailed("path_filestat_get", dirfd, st.errno)
             ELSE /\ last' = CallOut("path_filestat_get", dirfd,
                                     enc_byref(filestat_ptr), TRUE,
                                     enc_byref(filestat_ptr) = __WASI_ESUCCESS,
                                     st.obj)
                  /\ UNCHANGED <<fds, hostfds, files, created, revoked, nopens>>

(***************************************************************************)
(* path_readlink with its buffer, the guest's addresses being in memory.   *)
(***************************************************************************)
\* The length in bytes of the text of a path: its names and the slashes
\* between them.
RECURSIVE NamesLen(_)
NamesLen(t) ==
    IF t = <<>> THEN 0
    ELSE NamesLen(Tail(t))
         + (CASE Head(t) = "passwd" -> 6 [] Head(t) \in {"etc", "abs"} -> 3
              [] Head(t) \in {"..", "up", "in"} -> 2 [] OTHER -> 1)
TextLen(t) ==
    IF t = <<>> THEN 0
    ELSE IF Head(t) = "/" THEN NamesLen(Tail(t)) + Len(Tail(t))
    ELSE NamesLen(t) + Len(t) - 1

\* The buffer lengths a guest passes.
BufLenInputs == {0, 1, 3}
\* The paths a guest passes to path_readlink: links, a file, a directory, a
\* name that is not there, and links behind a directory and behind a link.
ReadlinkPathInputs ==
    { <<"l">>, <<"up">>, <<"abs">>, <<"in">>, <<"a">>, <<".">>, <<"n">>,
      <<"d", "out">>, <<"l", "out">> }

\* sys::unix: readlinkat(2) is called whatever buf_len is, into a buffer of
\* one byte when it is 0.  The result: the errno, the count returned, whether
\* the link was read and how many bytes of the guest's buffer were written.
path_readlink_unix(resolved, buf_len) ==
    LET p == IF resolved.name = "." THEN resolved.dir
             ELSE resolved.dir \o <<resolved.name>>
        bufsiz == IF buf_len = 0 THEN 1 ELSE buf_len
        len == IF TextLen(SymLinks[p]) < bufsiz THEN TextLen(SymLinks[p]) ELSE bufsiz
    IN  IF HostKind(p) = "none"
        THEN [errno |-> __WASI_ENOENT, used |-> 0, read |-> FALSE, written |-> 0]
        ELSE IF HostKind(p) # __WASI_FILETYPE_SYMBOLIC_LINK
        THEN [errno |-> __WASI_EINVAL, used |-> 0, read |-> FALSE, written |-> 0]
        ELSE [errno |-> __WASI_ESUCCESS,
              used |-> IF len < buf_len THEN len ELSE buf_len,
              read |-> TRUE,
              written |-> IF buf_len = 0 THEN 0 ELSE len]

\* sys::windows: read_link() is called whatever buf.len() is, and the path
\* of the directory is stripped from the front of the target.
path_readlink_windows(resolved, buf_len) ==
    LET p == IF resolved.name = "." THEN resolved.dir
             ELSE resolved.dir \o <<resolved.name>>
        target_path == SymLinks[p]
        dir_path == <<"/">> \o resolved.dir
        stripped == SubSeq(target_path, Len(dir_path) + 1, Len(target_path))
        nread == IF TextLen(stripped) < buf_len THEN TextLen(stripped) ELSE buf_len
    IN  IF HostKind(p) = "none"
        THEN [errno |-> __WASI_ENOENT, used |-> 0, read |-> FALSE, written |-> 0]
        ELSE IF HostKind(p) # __WASI_FILETYPE_SYMBOLIC_LINK
        THEN [errno |-> __WASI_EINVAL, used |-> 0, read |-> FALSE, written |-> 0]
        ELSE IF ~(/\ Len(target_path) >= Len(dir_path)
                  /\ SubSeq(target_path, 1, Len(dir_path)) = dir_path)
        THEN [errno |-> __WASI_ENOTCAPABLE, used |-> 0, read |-> TRUE, written |-> 0]
        ELSE [errno |-> __WASI_ESUCCESS, used |-> nread, read |-> TRUE, written |-> nread]

path_readlink_buf(sys, dirfd, path, buf_len) ==
    IF path_get(dirfd, {__WASI_RIGHT_PATH_READLINK}, {}) # __WASI_ESUCCESS
    THEN /\ last' = Call("path_readlink", dirfd,
                         path_get(dirfd, {__WASI_RIGHT_PATH_READLINK}, {}), FALSE, TRUE)
         /\ UNCHANGED <<fds, hostfds, files, created, revoked, nopens>>
    ELSE IF fds[dirfd].rawfd \notin DOMAIN hostfds
    THEN /\ last' = Call("path_readlink", dirfd, __WASI_EBADF, TRUE, TRUE)
         /\ UNCHANGED <<fds, hostfds, files, created, revoked, nopens>>
    ELSE IF LowestFree(DOMAIN hostfds) > MaxRawFd
    THEN /\ last' = Call("path_readlink", dirfd, __WASI_EMFILE, TRUE, TRUE)
         /\ UNCHANGED <<fds, hostfds, files, created, revoked, nopens>>
    ELSE LET resolved == path_get_resolve(DirPath(hostfds[fds[dirfd].rawfd]), {},
                                          path, FALSE)
             r == IF sys = "unix" THEN path_readlink_unix(resolved, buf_len)
                  ELSE path_readlink_windows(resolved, buf_len)
         IN  IF resolved.errno # __WASI_ESUCCESS
             THEN /\ last' = Call("path_readlink", dirfd, resolved.errno, TRUE, TRUE)
                  /\ UNCHANGED <<fds, hostfds, files, created, revoked, nopens>>
             ELSE IF r.errno # __WASI_ESUCCESS
             THEN /\ last' = CallOut("path_readlink", dirfd, r.errno, TRUE, TRUE, r)
                  /\ UNCHANGED <<fds, hostfds, files, created, revoked, nopens>>
             ELSE /\ last' = CallOut("path_readlink", dirfd, __WASI_ESUCCESS, TRUE, TRUE, r)
                  /\ UNCHANGED <<fds, hostfds, files, created, revoked, nopens>>

(***************************************************************************)
(* fd_readdir with its buffer, the guest's addresses being in memory.  The *)
(* host lists a directory in an order of its own: here ".", ".." and the   *)
(* names in alphabetical order, or that list backwards.                    *)
(***************************************************************************)
\* size_of::<wasm32::__wasi_dirent_t>()
DIRENT_SIZE == 24

Reverse(q) == [i \in 1 .. Len(q) |-> q[Len(q) + 1 - i]]

\* readdir(3) from the position cookie on: the names of the directory dir.
readdir_names(dir, cookie, backwards) ==
    LET all == <<".", "..">>
               \o SelectSeq(<<"a", "abs", "d", "in", "l", "n", "out", "up">>,
                            LAMBDA n : HostKind(dir \o <<n>>) # "none")
        listed == IF backwards THEN Reverse(all) ELSE all
    IN  SubSeq(listed, cookie + 1, Len(listed))

\* The size of the entries names[1 .. k]: a dirent and the name, each.
RECURSIVE EntriesSize(_, _)
EntriesSize(names, k) ==
    IF k = 0 THEN 0
    ELSE EntriesSize(names, k - 1) + DIRENT_SIZE + TextLen(<<names[k]>>)

\* The buffer lengths a guest passes: room for no entry, for ".", for "."
\* and a part of "..", for three entries, and for every entry.
ReaddirBufLenInputs == {0, 25, 50, 80, 300}

\* sys::unix::hostcalls_impl::fd_readdir: the number of entries written, an
\* entry that needs more than the space left ending the loop.
RECURSIVE fd_readdir_unix(_, _, _)
fd_readdir_unix(names, k, left) ==
    IF left = 0 \/ k = Len(names) THEN k
    ELSE IF DIRENT_SIZE + TextLen(<<names[k + 1]>>) > left THEN k
    ELSE fd_readdir_unix(names, k + 1, left - (DIRENT_SIZE + TextLen(<<names[k + 1]>>)))

\* sys::unix::linux::hostcalls_impl::fd_readdir: the number of entries
\* copied before host_buf[0..offset] is out of range, all of them if it
\* never is.
RECURSIVE fd_readdir_linux(_, _, _)
fd_readdir_linux(names, k, left) ==
    IF k = Len(names) THEN k
    ELSE IF DIRENT_SIZE + TextLen(<<names[k + 1]>>) > left THEN k
    ELSE fd_readdir_linux(names, k + 1, left - (DIRENT_SIZE + TextLen(<<names[k + 1]>>)))

\* The entries sys::unix::linux::hostcalls_impl::fd_readdir_impl collects, and
\* those readdir_r gives after seekdir: the host's own entries from the
\* position cookie on, each with the position after it (seek_loc, d_off).
fd_readdir_impl(dir, cookie, backwards) ==
    LET names == readdir_names(dir, cookie, backwards)
    IN  [j \in 1 .. Len(names) |-> [name |-> names[j], cookie |-> cookie + j]]

\* sys::windows::hostcalls_impl::fd_readdir: "." and ".." emulated with the
\* cookies 1 and 2, then what read_dir gives, zipped with 3.., and the first
\* cookie entries of that skipped.
fd_readdir_windows(dir, cookie, backwards) ==
    LET found == SelectSeq(<<"a", "abs", "d", "in", "l", "n", "out", "up">>,
                           LAMBDA n : HostKind(dir \o <<n>>) # "none")
        names == <<".", "..">> \o (IF backwards THEN Reverse(found) ELSE found)
        iter  == [i \in 1 .. Len(names) |-> [name |-> names[i], cookie |-> i]]
    IN  SubSeq(iter, cookie + 1, Len(iter))

\* The entries the build sys yields from cookie on, the buffer aside.
Dirents(sys, dir, cookie, backwards) ==
    IF sys = "windows" THEN fd_readdir_windows(dir, cookie, backwards)
    ELSE fd_readdir_impl(dir, cookie, backwards)

\* The Linux build panics at the slice that is out of range: the call does
\* not return.  The other builds drop the entry that does not fit.
fd_readdir_buf(sys, fd, buf_len, cookie, backwards) ==
    IF get_fd_entry(fd, {__WASI_RIGHT_FD_READDIR}, {}) # __WASI_ESUCCESS
    THEN /\ last' = Call("fd_readdir", fd,
                         get_fd_entry(fd, {__WASI_RIGHT_FD_READDIR}, {}), FALSE, TRUE)
         /\ UNCHANGED <<fds, hostfds, files, created, revoked, nopens>>
    ELSE IF fds[fd].rawfd \notin DOMAIN hostfds
    THEN /\ last' = Call("fd_readdir", fd, __WASI_EBADF, TRUE, TRUE)
         /\ UNCHANGED <<fds, hostfds, files, created, revoked, nopens>>
    ELSE IF fdopendir_errno(hostfds[fds[fd].rawfd]) # __WASI_ESUCCESS
    THEN /\ last' = Call("fd_readdir", fd, fdopendir_errno(hostfds[fds[fd].rawfd]),
                         TRUE, TRUE)
         /\ UNCHANGED <<fds, hostfds, files, created, revoked, nopens>>
    ELSE LET dirents == Dirents(sys, DirPath(hostfds[fds[fd].rawfd]), cookie, backwards)
             names == [j \in 1 .. Len(dirents) |-> dirents[j].name]
             k == IF sys = "linux" THEN fd_readdir_linux(names, 0, buf_len)
                  ELSE fd_readdir_unix(names, 0, buf_len)
         IN  /\ last' = CallOut("fd_readdir", fd,
                                IF sys = "linux" /\ k < Len(names)
                                THEN "panic" ELSE __WASI_ESUCCESS,
                                TRUE, TRUE,
                                [names |-> names, buf_len |-> buf_len,
                                 used |-> EntriesSize(names, k),
                                 written |-> EntriesSize(names, k),
                                 sys |-> sys, cookie |-> cookie,
                                 backwards |-> backwards,
                                 dirents |-> SubSeq(dirents, 1, k)])
             /\ UNCHANGED <<fds, hostfds, files, created, revoked, nopens>>

\* The calls that look into the host's directories, on a table that is
\* opened, narrowed and closed.
NextPath ==
    \/ \E fd \in Handles : fd_close(fd)
    \/ \E fd \in Handles, r \in RightsInputs : fd_fdstat_set_rights(fd, r[1], r[2])
    \/ \E dirfd \in Handles, path \in PathInputs, o \in OpenInputs :
          path_open(dirfd, path, o[1], o[2], o[3], o[4], 0)
    \/ \E dirfd \in Handles, dirflags \in LookupInputs, path \in StatPathInputs :
          path_filestat_get(dirfd, dirflags, 0, path, 0)
    \/ \E dirfd \in Handles, p \in {<<MemCells, 0>>, <<0, MemCells>>} :
          path_filestat_get(dirfd, {}, p[1], <<"a">>, p[2])
    \/ \E sys \in {"unix", "windows"}, dirfd \in Handles, path \in ReadlinkPathInputs,
          buf_len \in BufLenInputs :
          path_readlink_buf(sys, dirfd, path, buf_len)
    \/ \E sys \in {"unix", "linux"}, fd \in Handles, buf_len \in ReaddirBufLenInputs :
          fd_readdir_buf(sys, fd, buf_len, 0, FALSE)

SpecPath == Init /\ [][NextPath]_vars

(***************************************************************************)
(* Directory listings alone, in the three builds, from every cookie a      *)
(* listing hands out, on a table that is opened and closed.                *)
(***************************************************************************)
\* The highest cookie a guest passes.
MaxCookie == 3

NextDir ==
    \/ \E fd \in Handles : fd_close(fd)
    \/ \E dirfd \in Handles, path \in PathInputs, o \in OpenInputs :
          path_open(dirfd, path, o[1], o[2], o[3], o[4], 0)
    \/ \E sys \in {"unix", "linux", "windows"}, fd \in Handles,
          buf_len \in ReaddirBufLenInputs \ {0, 50}, cookie \in 0 .. MaxCookie,
          backwards \in BOOLEAN :
          fd_readdir_buf(sys, fd, buf_len, cookie, backwards)

SpecDir == Init /\ [][NextDir]_vars

(***************************************************************************)
(* fd_prestat_get and fd_prestat_dir_name, in contexts whose embedder      *)
(* preopened the directory under one of several paths.                     *)
(***************************************************************************)
__WASI_ENAMETOOLONG == "name-too-long"
__WASI_EILSEQ == "illegal-sequence"

\* The paths an embedder preopens the directory under: "/s", "/" and e with
\* an acute accent (two bytes in UTF-8), and "/" and a byte that no UTF-8
\* text holds.
PreopenPathInputs == { PreopenPath, <<47, 195, 169>>, <<47, 255>> }

\* str::from_utf8 on texts of one-byte and two-byte characters.
RECURSIVE from_utf8(_)
from_utf8(b) ==
    IF b = <<>> THEN TRUE
    ELSE IF b[1] < 128 THEN from_utf8(Tail(b))
    ELSE IF b[1] \in 194 .. 223 /\ Len(b) >= 2 /\ b[2] \in 128 .. 191
         THEN from_utf8(Tail(Tail(b)))
    ELSE FALSE

\* host_impl::path_from_host: the host path as a guest string, which is the
\* path's own bytes when they are UTF-8 text.
path_from_host(po_path) ==
    IF from_utf8(po_path) THEN [errno |-> __WASI_ESUCCESS, path |-> po_path]
    ELSE [errno |-> __WASI_EILSEQ, path |-> <<>>]

InitPrestat ==
    /\ \E po_path \in PreopenPathInputs :
          fds = [h \in {1, 3} |->
                   CASE h = 1 -> StdEntry(1, "Stdout", 1)
                     [] h = 3 -> [id |-> 3, file_type |-> __WASI_FILETYPE_DIRECTORY,
                                  descriptor |-> "File", needs_close |-> TRUE,
                                  rawfd |-> 3,
                                  rights_base |-> RIGHTS_DIRECTORY_BASE,
                                  rights_inheriting |-> RIGHTS_DIRECTORY_INHERITING,
                                  preopen_path |-> {po_path}]]
    /\ hostfds = [r \in 0 .. 3 |->
                    IF r = 3 THEN [file |-> ".", read |-> TRUE, write |-> FALSE]
                    ELSE [file |-> "tty", read |-> TRUE, write |-> TRUE]]
    /\ files = [n \in {"a", "d"} |->
                    IF n = "a" THEN [kind |-> __WASI_FILETYPE_REGULAR_FILE, size |-> 0]
                    ELSE [kind |-> __WASI_FILETYPE_DIRECTORY, size |-> 0]]
    /\ created = [i \in {1, 3} |->
                    [rights_base |-> fds[i].rights_base,
                     rights_inheriting |-> fds[i].rights_inheriting]]
    /\ revoked = {}
    /\ nopens = 0
    /\ last = Call("none", 0, __WASI_ESUCCESS, FALSE, FALSE)

\* The preopen path of an entry that has one.
PoPath(fe) == CHOOSE po_path \in fe.preopen_path : TRUE

fd_prestat_get(fd, prestat_ptr) ==
    IF get_fd_entry(fd, {__WASI_RIGHT_PATH_OPEN}, {}) # __WASI_ESUCCESS
    THEN Refused("fd_prestat_get", fd, get_fd_entry(fd, {__WASI_RIGHT_PATH_OPEN}, {}))
    ELSE IF fds[fd].preopen_path = {}
    THEN Refused("fd_prestat_get", fd, __WASI_ENOTSUP)
    ELSE IF fds[fd].file_type # __WASI_FILETYPE_DIRECTORY
    THEN Refused("fd_prestat_get", fd, __WASI_ENOTDIR)
    ELSE IF path_from_host(PoPath(fds[fd])).errno # __WASI_ESUCCESS
    THEN Refused("fd_prestat_get", fd, path_from_host(PoPath(fds[fd])).errno)
    ELSE /\ last' = CallOut("fd_prestat_get", fd, enc_byref(prestat_ptr), FALSE,
                            enc_byref(prestat_ptr) = __WASI_ESUCCESS,
                            [pr_name_len |-> Len(path_from_host(PoPath(fds[fd])).path)])
         /\ UNCHANGED <<fds, hostfds, files, created, revoked, nopens>>

\* A comparison that also refuses the buffer of exactly the path's length.
name_too_long_at(path, path_len) == Len(path) >= path_len

\* path.len() > dec_usize(path_len)
name_too_long(path, path_len) == Len(path) > path_len

\* The path lengths a guest passes.
MaxPathLen == 4

fd_prestat_dir_name(fd, path_ptr, path_len) ==
    IF get_fd_entry(fd, {__WASI_RIGHT_PATH_OPEN}, {}) # __WASI_ESUCCESS
    THEN Refused("fd_prestat_dir_name", fd,
                 get_fd_entry(fd, {__WASI_RIGHT_PATH_OPEN}, {}))
    ELSE IF fds[fd].preopen_path = {}
    THEN Refused("fd_prestat_dir_name", fd, __WASI_ENOTSUP)
    ELSE IF fds[fd].file_type # __WASI_FILETYPE_DIRECTORY
    THEN Refused("fd_prestat_dir_name", fd, __WASI_ENOTDIR)
    ELSE IF path_from_host(PoPath(fds[fd])).errno # __WASI_ESUCCESS
    THEN Refused("fd_prestat_dir_name", fd, path_from_host(PoPath(fds[fd])).errno)
    ELSE /\ last' = CallOut("fd_prestat_dir_name", fd,
                            IF name_too_long(path_from_host(PoPath(fds[fd])).path, path_len)
                            THEN __WASI_ENAMETOOLONG ELSE enc_byref(path_ptr),
                            FALSE,
                            /\ ~name_too_long(path_from_host(PoPath(fds[fd])).path, path_len)
                            /\ enc_byref(path_ptr) = __WASI_ESUCCESS,
                            [path_len |-> path_len, path_ptr |-> path_ptr,
                             path |-> path_from_host(PoPath(fds[fd])).path])
         /\ UNCHANGED <<fds, hostfds, files, created, revoked, nopens>>

NextPrestat ==
    \/ \E fd \in Handles : fd_close(fd)
    \/ \E fd \in Handles, r \in RightsInputs : fd_fdstat_set_rights(fd, r[1], r[2])
    \/ \E dirfd \in Handles, path \in PathInputs, o \in OpenInputs :
          path_open(dirfd, path, o[1], o[2], o[3], o[4], 0)
    \/ \E fd \in Handles, prestat_ptr \in Pointers : fd_prestat_get(fd, prestat_ptr)
    \/ \E fd \in Handles, path_ptr \in Pointers, path_len \in 0 .. MaxPathLen :
          fd_prestat_dir_name(fd, path_ptr, path_len)

SpecPrestat == InitPrestat /\ [][NextPrestat]_vars

(***************************************************************************)
(* The descriptor table under opens, closes and narrowed rights alone: a   *)
(* context like that of Init in which path_open may still succeed          *)
(* TableOpens times, so that a handle is closed and handed out again while *)
(* another one stays open.                                                 *)
(***************************************************************************)
TableOpens == 3

InitTable ==
    /\ fds = [h \in {1, 3} |->
                CASE h = 1 -> StdEntry(1, "Stdout", 1)
                  [] h = 3 -> [id |-> 3, file_type |-> __WASI_FILETYPE_DIRECTORY,
                               descriptor |-> "File", needs_close |-> TRUE,
                               rawfd |-> 3,
                               rights_base |-> RIGHTS_DIRECTORY_BASE,
                               rights_inheriting |-> RIGHTS_DIRECTORY_INHERITING,
                               preopen_path |-> {PreopenPath}]]
    /\ hostfds = [r \in 0 .. 3 |->
                    IF r = 3 THEN [file |-> ".", read |-> TRUE, write |-> FALSE]
                    ELSE [file |-> "tty", read |-> TRUE, write |-> TRUE]]
    /\ files = [n \in {"a", "d"} |->
                    IF n = "a" THEN [kind |-> __WASI_FILETYPE_REGULAR_FILE, size |-> 0]
                    ELSE [kind |-> __WASI_FILETYPE_DIRECTORY, size |-> 0]]
    /\ created = [i \in {1, 3} |->
                    [rights_base |-> fds[i].rights_base,
                     rights_inheriting |-> fds[i].rights_inheriting]]
    /\ revoked = {}
    /\ nopens = MaxOpens - TableOpens
    /\ last = Call("none", 0, __WASI_ESUCCESS, FALSE, FALSE)

(***************************************************************************)
(* fd_fdstat_get                                                           *)
(***************************************************************************)
dec_byref(ptr) == IF ptr < MemCells THEN __WASI_ESUCCESS ELSE __WASI_EFAULT

\* The record at fdstat_ptr is read first; it is written back, as it was
\* read, when the handle is not in the table.
fd_fdstat_get(fd, fdstat_ptr) ==
    IF dec_byref(fdstat_ptr) # __WASI_ESUCCESS
    THEN Refused("fd_fdstat_get", fd, dec_byref(fdstat_ptr))
    ELSE IF fd \in DOMAIN fds /\ fds[fd].rawfd \notin DOMAIN hostfds
    THEN HostFailed("fd_fdstat_get", fd, __WASI_EBADF)
    ELSE /\ last' = IF fd \in DOMAIN fds
                     THEN CallOut("fd_fdstat_get", fd, enc_byref(fdstat_ptr), TRUE,
                                  enc_byref(fdstat_ptr) = __WASI_ESUCCESS,
                                  [fs_filetype |-> fds[fd].file_type,
                                   fs_rights_base |-> fds[fd].rights_base,
                                   fs_rights_inheriting |-> fds[fd].rights_inheriting])
                     ELSE Call("fd_fdstat_get", fd,
                               IF enc_byref(fdstat_ptr) # __WASI_ESUCCESS
                               THEN enc_byref(fdstat_ptr) ELSE __WASI_EBADF,
                               FALSE, enc_byref(fdstat_ptr) = __WASI_ESUCCESS)
         /\ UNCHANGED <<fds, hostfds, files, created, revoked, nopens>>

\* The rights masks a guest passes here: one that leaves a directory
\* path_open and the right to read what it opens, and one that takes
\* path_open from it.
TableRightsInputs ==
    { <<{__WASI_RIGHT_PATH_OPEN, __WASI_RIGHT_FD_READDIR}, {__WASI_RIGHT_FD_READ}>>,
      <<{__WASI_RIGHT_FD_READDIR}, {}>> }
\* The open requests a guest passes here: those of OpenInputs, and one with
\* each of the synchronisation flags.
TableOpenInputs ==
    OpenInputs \cup { <<{}, {__WASI_RIGHT_FD_READ}, {}, {f}>> :
                        f \in {__WASI_FDFLAG_DSYNC, __WASI_FDFLAG_SYNC, __WASI_FDFLAG_RSYNC} }

NextTable ==
    \/ \E fd \in 1 .. (3 + TableOpens) : fd_close(fd)
    \/ \E fd \in Handles, r \in TableRightsInputs : fd_fdstat_set_rights(fd, r[1], r[2])
    \/ \E dirfd \in Handles, path \in PathInputs, o \in TableOpenInputs :
          \E fd_out_ptr \in FdOutInputs(path, o) :
             path_open(dirfd, path, o[1], o[2], o[3], o[4], fd_out_ptr)
    \/ \E fd \in Handles, fdstat_ptr \in Pointers : fd_fdstat_get(fd, fdstat_ptr)

SpecTable == InitTable /\ [][NextTable]_vars

\* fd_renumber on a table that holds several opened files.
NextRenumber ==
    \/ \E fd \in 1 .. (3 + TableOpens) : fd_close(fd)
    \/ \E dirfd \in Handles, path \in PathInputs, o \in OpenInputs :
          path_open(dirfd, path, o[1], o[2], o[3], o[4], 0)
    \/ \E from \in Handles, to \in Handles : fd_renumber(from, to)

SpecRenumber == InitTable /\ [][NextRenumber]_vars

(***************************************************************************)
(* poll_oneoff.  A subscription is the record the guest wrote: userdata,   *)
(* type, and for a clock its clock_id, timeout (nanoseconds) and flags,    *)
(* for a descriptor its fd.  An event is the record written back, without  *)
(* its byte count.  The readings of the host's clocks at the call and      *)
(* whether the terminal becomes readable before the poll ends are the      *)
(* host's to choose.                                                       *)
(***************************************************************************)
__WASI_EVENTTYPE_CLOCK == "clock"
__WASI_EVENTTYPE_FD_READ == "fd_read"
__WASI_EVENTTYPE_FD_WRITE == "fd_write"
__WASI_CLOCK_REALTIME == "realtime"
__WASI_CLOCK_MONOTONIC == "monotonic"
__WASI_SUBSCRIPTION_CLOCK_ABSTIME == 1

ClockSubscription(userdata, clock_id, timeout, flags) ==
    [userdata |-> userdata, type |-> __WASI_EVENTTYPE_CLOCK, clock_id |-> clock_id,
     timeout |-> timeout, flags |-> flags, fd |-> 0]
FdSubscription(userdata, type, fd) ==
    [userdata |-> userdata, type |-> type, clock_id |-> __WASI_CLOCK_REALTIME,
     timeout |-> 0, flags |-> 0, fd |-> fd]

\* The subscriptions a guest passes: clocks with relative and absolute
\* timeouts, two of them less than a millisecond apart, and reads and writes
\* of the terminal and of a descriptor an open may have made.
SubscriptionInputs ==
    { ClockSubscription(1, __WASI_CLOCK_REALTIME, 1500000, 0),
      ClockSubscription(2, __WASI_CLOCK_MONOTONIC, 1000000, 0),
      ClockSubscription(3, __WASI_CLOCK_MONOTONIC, 5000000, __WASI_SUBSCRIPTION_CLOCK_ABSTIME),
      ClockSubscription(4, __WASI_CLOCK_REALTIME, 5000000, __WASI_SUBSCRIPTION_CLOCK_ABSTIME),
      FdSubscription(5, __WASI_EVENTTYPE_FD_READ, 0),
      FdSubscription(6, __WASI_EVENTTYPE_FD_WRITE, 1),
      FdSubscription(7, __WASI_EVENTTYPE_FD_READ, 5) }
\* The subscription arrays a guest passes: up to two subscriptions.
SubscriptionLists ==
    {<<>>} \cup { <<s>> : s \in SubscriptionInputs }
           \cup { <<s, t>> : s \in SubscriptionInputs, t \in SubscriptionInputs }
\* The readings a host clock may show, in nanoseconds.
ClockReadings == {1000000, 3000000}

\* now is SystemTime::now(), nanoseconds since the Unix epoch.
wasi_clock_to_relative_ns_delay(wasi_clock, now) ==
    IF wasi_clock.flags # __WASI_SUBSCRIPTION_CLOCK_ABSTIME
    THEN wasi_clock.timeout
    ELSE IF wasi_clock.timeout > now THEN wasi_clock.timeout - now ELSE 0

\* min_by_key: the first of the elements with the smallest delay; none of an
\* empty sequence.
min_by_key_first(cs) ==
    IF cs = <<>> THEN {}
    ELSE {cs[CHOOSE i \in 1 .. Len(cs) :
                /\ \A j \in 1 .. Len(cs) : cs[i].delay <= cs[j].delay
                /\ \A j \in 1 .. i - 1 : cs[i].delay < cs[j].delay]}

\* The ClockEventData poll_oneoff keeps of the clock subscriptions, as an
\* Option: its delay is in milliseconds.
poll_oneoff_timeout(input, now) ==
    LET clocks == SelectSeq(input, LAMBDA e : e.type = __WASI_EVENTTYPE_CLOCK)
    IN  min_by_key_first([i \in 1 .. Len(clocks) |->
            [delay |-> wasi_clock_to_relative_ns_delay(clocks[i], now) \div 1000000,
             userdata |-> clocks[i].userdata]])

\* The FdEventData poll_oneoff keeps of the descriptor subscriptions.
poll_oneoff_fd_events(input) ==
    LET fs == SelectSeq(input, LAMBDA e : e.type \in {__WASI_EVENTTYPE_FD_READ,
                                                       __WASI_EVENTTYPE_FD_WRITE})
    IN  [i \in 1 .. Len(fs) |->
            [fd |-> fs[i].fd, type |-> fs[i].type, userdata |-> fs[i].userdata]]

\* poll(2): the revents of each PollFd.  A number that is no open descriptor
\* of the host gives POLLNVAL, a file can always be read and written, the
\* terminal can always be written.
nix_poll(fd_events, tty_readable) ==
    [i \in 1 .. Len(fd_events) |->
        IF fd_events[i].fd \notin DOMAIN hostfds THEN {"POLLNVAL"}
        ELSE IF fd_events[i].type = __WASI_EVENTTYPE_FD_WRITE THEN {"POLLOUT"}
        ELSE IF hostfds[fd_events[i].fd].file = "tty" /\ ~tty_readable THEN {}
        ELSE {"POLLIN"}]

Event(userdata, type, error, hangup) ==
    [userdata |-> userdata, type |-> type, error |-> error, hangup |-> hangup]

poll_oneoff_handle_timeout_event(timeout) ==
    << Event(timeout.userdata, __WASI_EVENTTYPE_CLOCK, __WASI_ESUCCESS, FALSE) >>

\* The events of the pairs (fd_events[i], revents[i]), i in 1 .. n.
RECURSIVE poll_oneoff_handle_fd_event(_, _, _)
poll_oneoff_handle_fd_event(fd_events, revents, n) ==
    IF n = 0 THEN <<>>
    ELSE LET ret == poll_oneoff_handle_fd_event(fd_events, revents, n - 1)
             fd_event == fd_events[n]
         IN  IF "POLLNVAL" \in revents[n]
             THEN Append(ret, Event(fd_event.userdata, fd_event.type, __WASI_EBADF, TRUE))
             ELSE IF "POLLERR" \in revents[n]
             THEN Append(ret, Event(fd_event.userdata, fd_event.type, __WASI_EIO, TRUE))
             ELSE IF "POLLHUP" \in revents[n]
             THEN Append(ret, Event(fd_event.userdata, fd_event.type, __WASI_ESUCCESS, TRUE))
             ELSE IF revents[n] \cap {"POLLIN", "POLLOUT"} # {}
             THEN Append(ret, Event(fd_event.userdata, fd_event.type, __WASI_ESUCCESS, FALSE))
             ELSE ret

\* .take(ready): how many of the pairs are looked at.
poll_oneoff_take(fd_events, ready) == IF ready < Len(fd_events) THEN ready ELSE Len(fd_events)

\* sys::unix::hostcalls_impl::poll_oneoff: the events, given the revents
\* poll(2) has set.
poll_oneoff_unix(fd_events, timeout, revents) ==
    LET ready == Cardinality({i \in 1 .. Len(fd_events) : revents[i] # {}})
    IN  IF fd_events = <<>> /\ timeout = {} THEN <<>>
        ELSE IF ready = 0
        THEN poll_oneoff_handle_timeout_event(CHOOSE t \in timeout : TRUE)
        ELSE poll_oneoff_handle_fd_event(fd_events, revents,
                                         poll_oneoff_take(fd_events, ready))

\* sys::windows::hostcalls_impl::poll_oneoff: an event for every descriptor
\* subscription that is not of the standard input; the timeout is not used.
poll_oneoff_windows(timeout, fd_events) ==
    LET polled == SelectSeq(fd_events, LAMBDA e : fds[e.fd].descriptor # "Stdin")
    IN  [i \in 1 .. Len(polled) |->
            Event(polled[i].userdata, polled[i].type, __WASI_ESUCCESS, FALSE)]

\* The call returns after poll(2) has: with no timeout and no descriptor
\* that becomes ready it does not return.
poll_oneoff(sys, input_ptr, input, output, nevents, realtime, monotonic, tty_readable) ==
    LET timeout == poll_oneoff_timeout(input, realtime)
        fd_events == poll_oneoff_fd_events(input)
        revents == nix_poll(fd_events, tty_readable)
        events == IF sys = "unix" THEN poll_oneoff_unix(fd_events, timeout, revents)
                  ELSE poll_oneoff_windows(timeout, fd_events)
        polled == sys = "unix" /\ (fd_events # <<>> \/ timeout # {})
    IN  IF enc_byref(nevents) # __WASI_ESUCCESS
        THEN Refused("poll_oneoff", 0, enc_byref(nevents))
        ELSE IF dec_slice_of(input_ptr) # __WASI_ESUCCESS
        THEN Refused("poll_oneoff", 0, dec_slice_of(input_ptr))
        ELSE IF dec_slice_of(output) # __WASI_ESUCCESS
        THEN Refused("poll_oneoff", 0, dec_slice_of(output))
        ELSE /\ sys = "unix" /\ timeout = {} /\ fd_events # <<>>
                => \E i \in 1 .. Len(fd_events) : revents[i] # {}
             /\ sys = "windows" => \A i \in 1 .. Len(fd_events) : fd_events[i].fd \in DOMAIN fds
             /\ last' = CallOut("poll_oneoff", 0, __WASI_ESUCCESS, polled, TRUE,
                                [input |-> input, events |-> events, timeout |-> timeout,
                                 revents |-> revents,
                                 now |-> [realtime |-> realtime, monotonic |-> monotonic]])
             /\ UNCHANGED <<fds, hostfds, files, created, revoked, nopens>>

\* poll_oneoff on a table that is opened and closed.
NextPoll ==
    \/ \E fd \in Handles : fd_close(fd)
    \/ \E dirfd \in Handles, path \in PathInputs, o \in OpenInputs :
          path_open(dirfd, path, o[1], o[2], o[3], o[4], 0)
    \/ \E sys \in {"unix", "windows"}, input \in SubscriptionLists,
          realtime \in ClockReadings, monotonic \in ClockReadings, tty_readable \in BOOLEAN :
          poll_oneoff(sys, 0, input, 0, 0, realtime, monotonic, tty_readable)
    \/ \E p \in {<<MemCells, 0, 0>>, <<0, MemCells, 0>>, <<0, 0, MemCells>>} :
          poll_oneoff("unix", p[1], <<>>, p[2], p[3], 1000000, 1000000, FALSE)

SpecPoll == Init /\ [][NextPoll]_vars

(***************************************************************************)
(* The loop of the unix poll_oneoff around poll(2), step by step.  A call  *)
(* that has reached the loop has the errno "polling" until it returns; the *)
(* number of times its poll(2) was interrupted is kept with it.            *)
(***************************************************************************)
\* The number of times a host interrupts one call.
MaxInterrupts == 2

\* The subscription arrays a guest passes here: those of SubscriptionLists,
\* and a clock with a read of the terminal and a write to it.
RetryInputs ==
    SubscriptionLists
    \cup { << ClockSubscription(1, __WASI_CLOCK_REALTIME, 1500000, 0),
              FdSubscription(5, __WASI_EVENTTYPE_FD_READ, 0),
              FdSubscription(6, __WASI_EVENTTYPE_FD_WRITE, 1) >> }

\* The call up to the loop; with nothing to wait for it returns at once.
poll_oneoff_enter(input, realtime) ==
    LET timeout == poll_oneoff_timeout(input, realtime)
        fd_events == poll_oneoff_fd_events(input)
    IN  /\ last.ret # "polling"
        /\ last' = CallOut("poll_oneoff", 0,
                           IF fd_events = <<>> /\ timeout = {}
                           THEN __WASI_ESUCCESS ELSE "polling",
                           fd_events # <<>> \/ timeout # {}, TRUE,
                           [input |-> input, events |-> <<>>, timeout |-> timeout,
                            revents |-> <<>>, interrupted |-> 0])
        /\ UNCHANGED <<fds, hostfds, files, created, revoked, nopens>>

\* Err(_) with Errno::last() == EINTR: continue.
nix_poll_eintr ==
    /\ last.ret = "polling"
    /\ last.out.interrupted < MaxInterrupts
    /\ last' = [last EXCEPT !.out.interrupted = @ + 1]
    /\ UNCHANGED <<fds, hostfds, files, created, revoked, nopens>>

\* Ok(ready): break, and the events are made and returned.  poll(2) returns
\* when a descriptor is ready or the timeout has passed.
nix_poll_ok(tty_readable) ==
    LET fd_events == poll_oneoff_fd_events(last.out.input)
        revents == nix_poll(fd_events, tty_readable)
    IN  /\ last.ret = "polling"
        /\ last.out.timeout = {} => \E i \in 1 .. Len(fd_events) : revents[i] # {}
        /\ last' = [last EXCEPT !.ret = __WASI_ESUCCESS,
                                !.out.revents = revents,
                                !.out.events = poll_oneoff_unix(fd_events, last.out.timeout,
                                                                revents)]
        /\ UNCHANGED <<fds, hostfds, files, created, revoked, nopens>>

\* The guest makes no other call while it is in this one.
NextRetry ==
    \/ \E input \in RetryInputs, realtime \in ClockReadings :
          poll_oneoff_enter(input, realtime)
    \/ nix_poll_eintr
    \/ \E tty_readable \in BOOLEAN : nix_poll_ok(tty_readable)

SpecRetry == Init /\ [][NextRetry]_vars

\* poll(2) with a timeout returns unless it is interrupted.
SpecRetryFair == SpecRetry /\ WF_vars(\E tty_readable \in BOOLEAN : nix_poll_ok(tty_readable))

(***************************************************************************)
(* clock_time_get.  The host has a wall clock, which its administrator     *)
(* sets forward and back, and a steady clock, which never goes back; the   *)
(* readings of both at the time of a call are kept with the call.          *)
(***************************************************************************)
\* The highest reading of a host clock.
MaxTick == 3

\* A clock id that no clock has.
ClockIdInputs == {__WASI_CLOCK_REALTIME, __WASI_CLOCK_MONOTONIC, "none"}

\* sys::unix::hostcalls_impl::clock_time_get: clock_gettime of the clock of
\* the same name.
clock_time_get_unix(clock_id, wall, steady) ==
    CASE clock_id = __WASI_CLOCK_REALTIME  -> [errno |-> __WASI_ESUCCESS, time |-> wall]
      [] clock_id = __WASI_CLOCK_MONOTONIC -> [errno |-> __WASI_ESUCCESS, time |-> steady]
      [] OTHER -> [errno |-> __WASI_EINVAL, time |-> 0]

\* sys::windows::hostcalls_impl::clock_time_get: get_monotonic_time() is the
\* time since an Instant, get_realtime_time() the SystemTime since the epoch.
clock_time_get_windows(clock_id, wall, steady) ==
    CASE clock_id = __WASI_CLOCK_REALTIME  -> [errno |-> __WASI_ESUCCESS, time |-> steady]
      [] clock_id = __WASI_CLOCK_MONOTONIC -> [errno |-> __WASI_ESUCCESS, time |-> wall]
      [] OTHER -> [errno |-> __WASI_EINVAL, time |-> 0]

\* The call is made when the host's clocks read wall and steady.
clock_time_get(sys, clock_id, time_ptr, wall, steady) ==
    LET r == IF sys = "unix" THEN clock_time_get_unix(clock_id, wall, steady)
             ELSE clock_time_get_windows(clock_id, wall, steady)
        ret == IF r.errno # __WASI_ESUCCESS THEN r.errno ELSE enc_byref(time_ptr)
    IN  /\ last.op = "clock_time_get" => steady >= last.out.steady
        /\ last' = CallOut("clock_time_get", 0, ret, TRUE, ret = __WASI_ESUCCESS,
                           [sys |-> sys, clock_id |-> clock_id, wall |-> wall,
                            steady |-> steady, time |-> r.time])
        /\ UNCHANGED <<fds, hostfds, files, created, revoked, nopens>>

NextClock ==
    \E sys \in {"unix", "windows"}, clock_id \in ClockIdInputs, time_ptr \in Pointers,
       wall \in 0 .. MaxTick, steady \in 0 .. MaxTick :
       clock_time_get(sys, clock_id, time_ptr, wall, steady)

SpecClock == Init /\ [][NextClock]_vars

(***************************************************************************)
(* args_get, args_sizes_get, environ_get and environ_sizes_get.  Guest     *)
(* pointers are PtrBits wide and the guest's memory is a slice of mem_len  *)
(* bytes, at most 2^PtrBits; the context's arguments and environment are   *)
(* lists of strings, each a sequence of bytes that holds no NUL.           *)
(***************************************************************************)
\* The width of wasm32::uintptr_t.
PtrBits == 4
__WASI_EOVERFLOW == "overflow"

\* size_of::<wasm32::uintptr_t>(), at the width PtrBits.
UINTPTR_SIZE == 1

\* The lists of strings a context is built with: no string, one, two, and
\* three, of one and two bytes.
StringLists ==
    { <<>>, << <<97>> >>, << <<97>>, <<98, 99>> >>, << <<98, 99>>, <<97>> >>,
      << <<97>>, <<97>>, <<98, 99>> >> }

\* The lengths of the guest's memory: the whole range of a pointer, and less.
MemLenInputs == { 2^PtrBits, 2^PtrBits - 3 }

\* CString::as_bytes_with_nul
as_bytes_with_nul(arg) == arg \o <<0>>

\* enc_slice_of: the errno of writing len bytes at ptr.
enc_slice_of(mem_len, ptr, len) ==
    IF ptr + len <= mem_len THEN __WASI_ESUCCESS ELSE __WASI_EFAULT

\* argv_buf + argv_buf_offset in u32: an overflow panics in a build with
\* overflow checks and wraps in one without.
add_uintptr(a, b, overflow_checks) ==
    IF a + b < 2^PtrBits THEN {a + b}
    ELSE IF overflow_checks THEN {} ELSE {(a + b) % 2^PtrBits}

\* The loop of args_get and environ_get from the string i on: the errno, the
\* pointers pushed and the slices written, as pairs of address and bytes.
RECURSIVE args_get_loop(_, _, _, _, _, _, _, _)
args_get_loop(args, i, argv_buf, argv_buf_offset, argv, writes, mem_len, overflow_checks) ==
    IF i > Len(args)
    THEN [errno |-> __WASI_ESUCCESS, argv |-> argv, writes |-> writes]
    ELSE LET arg_bytes == as_bytes_with_nul(args[i])
             sum == add_uintptr(argv_buf, argv_buf_offset, overflow_checks)
         IN  IF sum = {}
             THEN [errno |-> "panic", argv |-> argv, writes |-> writes]
             ELSE LET arg_ptr == CHOOSE x \in sum : TRUE
                  IN  IF enc_slice_of(mem_len, arg_ptr, Len(arg_bytes)) # __WASI_ESUCCESS
                      THEN [errno |-> __WASI_EFAULT, argv |-> argv, writes |-> writes]
                      ELSE IF argv_buf_offset + Len(arg_bytes) >= 2^PtrBits
                      THEN [errno |-> __WASI_EOVERFLOW, argv |-> Append(argv, arg_ptr),
                            writes |-> Append(writes, <<arg_ptr, arg_bytes>>)]
                      ELSE args_get_loop(args, i + 1, argv_buf,
                                         argv_buf_offset + Len(arg_bytes),
                                         Append(argv, arg_ptr),
                                         Append(writes, <<arg_ptr, arg_bytes>>),
                                         mem_len, overflow_checks)

\* The return of the loop and of the write of the pointers after it, with
\* what was written.
args_get_result(args, argv_ptr, argv_buf, mem_len, overflow_checks) ==
    LET r == args_get_loop(args, 1, argv_buf, 0, <<>>, <<>>, mem_len, overflow_checks)
        e == IF r.errno # __WASI_ESUCCESS THEN r.errno
             ELSE enc_slice_of(mem_len, argv_ptr, Len(r.argv) * UINTPTR_SIZE)
    IN  [errno |-> e, mem |-> r.writes # <<>> \/ e = __WASI_ESUCCESS,
         out |-> [args |-> args, argv_buf |-> argv_buf, mem_len |-> mem_len,
                  writes |-> r.writes,
                  argv |-> IF e = __WASI_ESUCCESS THEN r.argv ELSE <<>>]]

args_get(args, argv_ptr, argv_buf, mem_len, overflow_checks) ==
    LET r == args_get_result(args, argv_ptr, argv_buf, mem_len, overflow_checks)
    IN  /\ last' = CallOut("args_get", 0, r.errno, FALSE, r.mem, r.out)
        /\ UNCHANGED <<fds, hostfds, files, created, revoked, nopens>>

\* environ_get is the code of args_get, on wasi_ctx.env.
environ_get(env, environ_ptr, environ_buf, mem_len, overflow_checks) ==
    LET r == args_get_result(env, environ_ptr, environ_buf, mem_len, overflow_checks)
    IN  /\ last' = CallOut("environ_get", 0, r.errno, FALSE, r.mem, r.out)
        /\ UNCHANGED <<fds, hostfds, files, created, revoked, nopens>>

\* The sum of the lengths of the strings args[1 .. k], each with its NUL.
RECURSIVE SizeWithNul(_, _)
SizeWithNul(args, k) ==
    IF k = 0 THEN 0 ELSE SizeWithNul(args, k - 1) + Len(as_bytes_with_nul(args[k]))

\* The errno of the two enc_usize_byref.
enc_sizes(count_ptr, size_ptr, mem_len) ==
    IF enc_slice_of(mem_len, count_ptr, UINTPTR_SIZE) # __WASI_ESUCCESS
    THEN __WASI_EFAULT
    ELSE enc_slice_of(mem_len, size_ptr, UINTPTR_SIZE)

\* The sizes are summed in usize.
args_sizes_get(args, argc_ptr, argv_buf_size_ptr, mem_len) ==
    /\ last' = CallOut("args_sizes_get", 0,
                       enc_sizes(argc_ptr, argv_buf_size_ptr, mem_len), FALSE,
                       enc_slice_of(mem_len, argc_ptr, UINTPTR_SIZE) = __WASI_ESUCCESS,
                       [args |-> args, count |-> Len(args),
                        size |-> SizeWithNul(args, Len(args))])
    /\ UNCHANGED <<fds, hostfds, files, created, revoked, nopens>>

\* The sizes are summed in u32 with checked_add.
environ_sizes_get(env, environ_count_ptr, environ_size_ptr, mem_len) ==
    LET overflow == SizeWithNul(env, Len(env)) >= 2^PtrBits
    IN  /\ last' = CallOut("environ_sizes_get", 0,
                           IF overflow THEN __WASI_EOVERFLOW
                           ELSE enc_sizes(environ_count_ptr, environ_size_ptr, mem_len),
                           FALSE,
                           /\ ~overflow
                           /\ enc_slice_of(mem_len, environ_count_ptr, UINTPTR_SIZE)
                                 = __WASI_ESUCCESS,
                           [args |-> env, count |-> Len(env),
                            size |-> SizeWithNul(env, Len(env))])
        /\ UNCHANGED <<fds, hostfds, files, created, revoked, nopens>>

NextArgs ==
    \/ \E args \in StringLists, argv_ptr \in {0, 2^PtrBits - 1},
          argv_buf \in 0 .. 2^PtrBits - 1, mem_len \in MemLenInputs,
          overflow_checks \in BOOLEAN :
          args_get(args, argv_ptr, argv_buf, mem_len, overflow_checks)
    \/ \E env \in StringLists, environ_ptr \in {0, 2^PtrBits - 1},
          environ_buf \in 0 .. 2^PtrBits - 1, mem_len \in MemLenInputs,
          overflow_checks \in BOOLEAN :
          environ_get(env, environ_ptr, environ_buf, mem_len, overflow_checks)
    \/ \E args \in StringLists, argc_ptr \in {0, 2^PtrBits},
          argv_buf_size_ptr \in {1, 2^PtrBits}, mem_len \in MemLenInputs :
          args_sizes_get(args, argc_ptr, argv_buf_size_ptr, mem_len)
    \/ \E env \in StringLists, environ_count_ptr \in {0, 2^PtrBits},
          environ_size_ptr \in {1, 2^PtrBits}, mem_len \in MemLenInputs :
          environ_sizes_get(env, environ_count_ptr, environ_size_ptr, mem_len)

SpecArgs == Init /\ [][NextArgs]_vars

(***************************************************************************)
(* path_link                                                               *)
(***************************************************************************)
__WASI_RIGHT_PATH_LINK_SOURCE == "path_link_source"
__WASI_RIGHT_PATH_LINK_TARGET == "path_link_target"
__WASI_EEXIST == "exists"
__WASI_EPERM == "not-permitted"

\* The context whose preopened directory carries the two link rights of
\* host::RIGHTS_DIRECTORY_BASE besides the rights above.
InitLink ==
    /\ fds = [h \in {1, 3} |->
                CASE h = 1 -> StdEntry(1, "Stdout", 1)
                  [] h = 3 -> [id |-> 3, file_type |-> __WASI_FILETYPE_DIRECTORY,
                               descriptor |-> "File", needs_close |-> TRUE,
                               rawfd |-> 3,
                               rights_base |->
                                   RIGHTS_DIRECTORY_BASE
                                   \cup {__WASI_RIGHT_PATH_LINK_SOURCE,
                                         __WASI_RIGHT_PATH_LINK_TARGET},
                               rights_inheriting |-> RIGHTS_DIRECTORY_INHERITING,
                               preopen_path |-> {PreopenPath}]]
    /\ hostfds = [r \in 0 .. 3 |->
                    IF r = 3 THEN [file |-> ".", read |-> TRUE, write |-> FALSE]
                    ELSE [file |-> "tty", read |-> TRUE, write |-> TRUE]]
    /\ files = [n \in {"a", "d"} |->
                    IF n = "a" THEN [kind |-> __WASI_FILETYPE_REGULAR_FILE, size |-> 0]
                    ELSE [kind |-> __WASI_FILETYPE_DIRECTORY, size |-> 0]]
    /\ created = [i \in {1, 3} |->
                    [rights_base |-> fds[i].rights_base,
                     rights_inheriting |-> fds[i].rights_inheriting]]
    /\ revoked = {}
    /\ nopens = 0
    /\ last = Call("none", 0, __WASI_ESUCCESS, FALSE, FALSE)

\* The guest paths a guest passes as the source of a link: a file, a
\* directory, a name that is not there, links to a directory, to a file of
\* the preopened directory and out of it, and paths that leave it.
LinkOldPathInputs ==
    { <<"a">>, <<"d">>, <<"x">>, <<"l">>, <<"in">>, <<"up">>, <<"d", "out">>,
      <<"..", "etc", "passwd">> }

\* The guest paths a guest passes as the new name, all of the preopened
\* directory itself, whose names `files` holds.
LinkNewPathInputs == { <<"n">>, <<"a">>, <<"..", "n">> }

\* The rights a guest keeps on the preopened directory before it links.
LinkRightsInputs ==
    { <<{__WASI_RIGHT_PATH_LINK_SOURCE, __WASI_RIGHT_PATH_OPEN}, {}>>,
      <<{__WASI_RIGHT_PATH_LINK_TARGET, __WASI_RIGHT_PATH_OPEN}, {}>> }

\* The host path of the name `name` of the directory dir.
HostPathOf(dir, name) == IF name = "." THEN dir ELSE dir \o <<name>>

\* path_get(ctx, old_dirfd, 0, old_path, source_rights, 0, false): the lookup
\* flags the source is resolved with.
path_link_dirflags(old_flags) == {}

\* let atflags = libc::AT_SYMLINK_FOLLOW;
path_link_atflags_follow(old_flags) == TRUE

\* linkat(2): the errno and the host path of the file the new name is a link
\* to.  With AT_SYMLINK_FOLLOW the host follows a symbolic link at the old
\* name; without it the link itself is the file.
linkat(old_dir, old_name, new_dir, new_name, follow) ==
    LET src == HostPathOf(old_dir, old_name)
        found == IF HostKind(src) = __WASI_FILETYPE_SYMBOLIC_LINK /\ follow
                 THEN namei(old_dir, SymLinks[src])
                 ELSE [errno |-> __WASI_ESUCCESS, obj |-> src]
    IN  IF HostKind(src) = "none" THEN [errno |-> __WASI_ENOENT, obj |-> src]
        ELSE IF found.errno # __WASI_ESUCCESS THEN found
        ELSE IF HostKind(HostPathOf(new_dir, new_name)) # "none"
        THEN [errno |-> __WASI_EEXIST, obj |-> found.obj]
        ELSE IF HostKind(found.obj) = __WASI_FILETYPE_DIRECTORY
        THEN [errno |-> __WASI_EPERM, obj |-> found.obj]
        ELSE found

\* The size of the file at the host path p.
HostSize(p) ==
    IF Len(p) = 2 /\ p[1] = "s" /\ p[2] \in DOMAIN files THEN files[p[2]].size
    ELSE 0

path_link(old_dirfd, old_flags, old_path_ptr, old_path, new_dirfd, new_path_ptr, new_path) ==
    IF dec_slice_of(old_path_ptr) # __WASI_ESUCCESS
    THEN Refused("path_link", old_dirfd, dec_slice_of(old_path_ptr))
    ELSE IF dec_slice_of(new_path_ptr) # __WASI_ESUCCESS
    THEN Refused("path_link", old_dirfd, dec_slice_of(new_path_ptr))
    ELSE IF path_get(old_dirfd, {__WASI_RIGHT_PATH_LINK_SOURCE}, {}) # __WASI_ESUCCESS
    THEN Refused("path_link", old_dirfd,
                 path_get(old_dirfd, {__WASI_RIGHT_PATH_LINK_SOURCE}, {}))
    ELSE IF fds[old_dirfd].rawfd \notin DOMAIN hostfds
    THEN HostFailed("path_link", old_dirfd, __WASI_EBADF)
    ELSE LET old == path_get_resolve(DirPath(hostfds[fds[old_dirfd].rawfd]),
                                     path_link_dirflags(old_flags), old_path, FALSE)
         IN  IF old.errno # __WASI_ESUCCESS
             THEN HostFailed("path_link", old_dirfd, old.errno)
             ELSE IF path_get(new_dirfd, {__WASI_RIGHT_PATH_LINK_TARGET}, {})
                        # __WASI_ESUCCESS
             THEN HostFailed("path_link", old_dirfd,
                             path_get(new_dirfd, {__WASI_RIGHT_PATH_LINK_TARGET}, {}))
             ELSE IF fds[new_dirfd].rawfd \notin DOMAIN hostfds
             THEN HostFailed("path_link", old_dirfd, __WASI_EBADF)
             ELSE LET new == path_get_resolve(
                                 DirPath(hostfds[fds[new_dirfd].rawfd]), {},
                                 new_path, FALSE)
                      res == linkat(old.dir, old.name, new.dir, new.name,
                                    path_link_atflags_follow(old_flags))
                  IN  IF new.errno # __WASI_ESUCCESS
                      THEN HostFailed("path_link", old_dirfd, new.errno)
                      ELSE IF res.errno # __WASI_ESUCCESS
                      THEN HostFailed("path_link", old_dirfd, res.errno)
                      ELSE /\ files' = IF new.dir = PreopenDir
                                       THEN Insert(files, new.name,
                                                   [kind |-> HostKind(res.obj),
                                                    size |-> HostSize(res.obj)])
                                       ELSE files
                           /\ last' = CallOut("path_link", old_dirfd,
                                              __WASI_ESUCCESS, TRUE, FALSE,
                                              [old_flags |-> old_flags,
                                               src |-> HostPathOf(old.dir, old.name),
                                               link |-> HostPathOf(new.dir, new.name),
                                               obj |-> res.obj])
                           /\ UNCHANGED <<fds, hostfds, created, revoked, nopens>>

NextLink ==
    \/ \E fd \in Handles : fd_close(fd)
    \/ \E fd \in Handles, r \in LinkRightsInputs : fd_fdstat_set_rights(fd, r[1], r[2])
    \/ \E dirfd \in Handles, path \in PathInputs, o \in OpenInputs :
          path_open(dirfd, path, o[1], o[2], o[3], o[4], 0)
    \/ \E old_dirfd \in Handles, old_flags \in LookupInputs, p \in {0, MemCells},
          old_path \in LinkOldPathInputs, new_dirfd \in Handles,
          new_path \in LinkNewPathInputs :
          path_link(old_dirfd, old_flags, p, old_path, new_dirfd, 0, new_path)

SpecLink == InitLink /\ [][NextLink]_vars

(***************************************************************************)
(* Properties of the calls.                                                *)
(***************************************************************************)
Unwritten == ~last'.os /\ ~last'.mem /\ files' = files

\* C1: fd_close on a handle whose entry has a preopen path returns
\* not-supported and leaves the entry, its rights and its host handle as they
\* were; and no call at all removes a preopen entry or its host handle, so
\* the handle stays usable by every later call.
C1_ClosePreopenNotSupported ==
    [][ /\ \A fd \in Handles :
              (last'.op = "fd_close" /\ fd \in DOMAIN fds
               /\ fds[fd].preopen_path # {} /\ fd_close(fd))
              => /\ last'.ret = __WASI_ENOTSUP
                 /\ fds' = fds
                 /\ hostfds' = hostfds
        /\ \A h \in DOMAIN fds :
              fds[h].preopen_path # {}
              => /\ h \in DOMAIN fds'
                 /\ fds'[h].preopen_path = fds[h].preopen_path
                 /\ fds'[h].rawfd = fds[h].rawfd
                 /\ fds[h].rawfd \in DOMAIN hostfds'
                 /\ hostfds'[fds[h].rawfd] = hostfds[fds[h].rawfd] ]_vars

C1_Witness ==
    /\ last.op = "fd_close"
    /\ last.ret = __WASI_ENOTSUP
    /\ last.fd \in DOMAIN fds
    /\ fds[last.fd].preopen_path # {}

\* C2: in every reachable state the rights_base and the rights_inheriting of
\* every entry of the table are subsets of the masks the entry was created
\* with.
C2_RightsNeverWiden ==
    \A h \in DOMAIN fds :
        /\ fds[h].id \in DOMAIN created
        /\ fds[h].rights_base \subseteq created[fds[h].id].rights_base
        /\ fds[h].rights_inheriting \subseteq created[fds[h].id].rights_inheriting

C2_Witness ==
    /\ last.op = "fd_fdstat_set_rights"
    /\ last.ret = __WASI_ENOTCAPABLE
    /\ last.fd \in DOMAIN fds
    /\ fds[last.fd].rights_base # created[fds[last.fd].id].rights_base
    /\ nopens > 0

\* C3: fd_fdstat_set_rights(fd, b, i) returns bad-handle when fd is absent;
\* otherwise it succeeds exactly when b is a subset of the entry's
\* rights_base and i of its rights_inheriting, and then the entry's masks
\* are exactly b and i and nothing else of the table has changed; otherwise
\* it returns not-capable and the table is as it was.
C3_SetRightsNarrowsExactly ==
    [][ \A fd \in Handles, r \in RightsInputs :
            (last'.op = "fd_fdstat_set_rights"
             /\ fd_fdstat_set_rights(fd, r[1], r[2]))
            => IF fd \notin DOMAIN fds
               THEN last'.ret = __WASI_EBADF /\ fds' = fds
               ELSE IF r[1] \subseteq fds[fd].rights_base
                       /\ r[2] \subseteq fds[fd].rights_inheriting
               THEN /\ last'.ret = __WASI_ESUCCESS
                    /\ fds' = [fds EXCEPT ![fd].rights_base = r[1],
                                          ![fd].rights_inheriting = r[2]]
               ELSE last'.ret = __WASI_ENOTCAPABLE /\ fds' = fds ]_vars

C3_Witness ==
    /\ last.op = "fd_fdstat_set_rights"
    /\ last.ret = __WASI_ESUCCESS
    /\ last.fd \in DOMAIN fds
    /\ fds[last.fd].rights_base = {__WASI_RIGHT_FD_READ}
    /\ fds[last.fd].rights_inheriting = {}
    /\ created[fds[last.fd].id].rights_inheriting # {}

\* C4, as claimed: once fd_fdstat_set_rights has removed fd_write from an
\* entry's rights_base, every fd_write on that handle returns not-capable
\* and writes nothing, for as long as the entry exists.
C4_RevokedWriteNotCapable ==
    [][ \A fd \in Handles, iovs_ptr \in Pointers, nwritten \in Pointers :
            (last'.op = "fd_write" /\ fd \in DOMAIN fds
             /\ fds[fd].id \in revoked /\ fd_write(fd, iovs_ptr, nwritten))
            => last'.ret = __WASI_ENOTCAPABLE /\ Unwritten ]_vars

\* C4, amended: once fd_fdstat_set_rights has removed fd_write from an
\* entry's rights_base, every fd_write on that handle makes no host call,
\* writes nothing to a file or to guest memory, and fails: with not-capable
\* when its iovec array decodes, with the decoding error (fault) when it
\* does not.
C4_RevokedWriteWritesNothing ==
    [][ \A fd \in Handles, iovs_ptr \in Pointers, nwritten \in Pointers :
            (last'.op = "fd_write" /\ fd \in DOMAIN fds
             /\ fds[fd].id \in revoked /\ fd_write(fd, iovs_ptr, nwritten))
            => /\ Unwritten
               /\ last'.ret = IF iovs_ptr < MemCells THEN __WASI_ENOTCAPABLE
                              ELSE __WASI_EFAULT ]_vars

C4_Witness ==
    /\ last.op = "fd_write"
    /\ last.ret = __WASI_ENOTCAPABLE
    /\ last.fd \in DOMAIN fds
    /\ fds[last.fd].id \in revoked
    /\ fds[last.fd].descriptor = "File"

\* C5: every entry path_open creates from the directory entry D holds a
\* rights_base and a rights_inheriting that are subsets of D's
\* rights_inheriting at the time of the call.
C5_OpenedRightsWithinInheriting ==
    [][ \A dirfd \in Handles, path \in PathInputs, o \in OpenInputs,
           fd_out_ptr \in Pointers :
            (last'.op = "path_open" /\ dirfd \in DOMAIN fds
             /\ path_open(dirfd, path, o[1], o[2], o[3], o[4], fd_out_ptr))
            => \A h \in DOMAIN fds' \ DOMAIN fds :
                  /\ fds'[h].rights_base \subseteq fds[dirfd].rights_inheriting
                  /\ fds'[h].rights_inheriting
                        \subseteq fds[dirfd].rights_inheriting ]_vars

\* The right the ABI has each of the descriptor-taking calls ask of its entry.
NeededRight ==
    [op \in {"fd_read", "fd_pread"} |-> __WASI_RIGHT_FD_READ]
    @@ [op \in {"fd_write", "fd_pwrite"} |-> __WASI_RIGHT_FD_WRITE]
    @@ [op \in {"fd_allocate"} |-> __WASI_RIGHT_FD_ALLOCATE]
    @@ [op \in {"fd_readdir"} |-> __WASI_RIGHT_FD_READDIR]
    @@ [op \in {"path_readlink"} |-> __WASI_RIGHT_PATH_READLINK]

\* C6: when fd_read, fd_write, fd_pread, fd_pwrite, fd_allocate, fd_readdir
\* or path_readlink is called on an entry that lacks the right the call
\* needs, the call has made no host call and has written nothing to guest
\* memory when it returns, and it returns not-capable (or the fault of an
\* argument that does not decode, or not-directory from the path resolver).
C6_RightsCheckBeforeEffects ==
    [][ (last'.op \in DOMAIN NeededRight
         /\ last'.fd \in DOMAIN fds
         /\ NeededRight[last'.op] \notin fds[last'.fd].rights_base)
        => /\ Unwritten
           /\ last'.ret \in {__WASI_ENOTCAPABLE, __WASI_EFAULT,
                             __WASI_ENOTDIR} ]_vars

\* C7: fd_pwrite asks for fd_write: on an entry whose rights_base lacks
\* fd_write it returns not-capable (or the fault of an argument that does
\* not decode), and on an entry that holds fd_write but not fd_read it does
\* not return not-capable.
C7_PwriteNeedsWriteRight ==
    [][ (last'.op = "fd_pwrite" /\ last'.fd \in DOMAIN fds)
        => /\ __WASI_RIGHT_FD_WRITE \notin fds[last'.fd].rights_base
              => last'.ret \in {__WASI_ENOTCAPABLE, __WASI_EFAULT}
           /\ (__WASI_RIGHT_FD_WRITE \in fds[last'.fd].rights_base
               /\ __WASI_RIGHT_FD_READ \notin fds[last'.fd].rights_base)
              => last'.ret # __WASI_ENOTCAPABLE ]_vars

\* C8: after fd_renumber(from, to) has succeeded with from # to, handle
\* `from` is absent from the table, handle `to` is present and its host
\* handle refers to the open file that the host handle of `from` referred to.
C8_RenumberMovesHandle ==
    [][ \A from \in Handles, to \in Handles :
            (last'.op = "fd_renumber" /\ last'.ret = __WASI_ESUCCESS
             /\ from # to /\ fd_renumber(from, to))
            => /\ from \notin DOMAIN fds'
               /\ to \in DOMAIN fds'
               /\ fds'[to].rawfd \in DOMAIN hostfds'
               /\ hostfds'[fds'[to].rawfd] = hostfds[fds[from].rawfd] ]_vars

\* C9: after fd_renumber(from, to) has succeeded with from # to, the entry
\* at `to` has the file type, the rights_base and the rights_inheriting that
\* the entry at `from` had before the call.
C9_RenumberCarriesRights ==
    [][ \A from \in Handles, to \in Handles :
            (last'.op = "fd_renumber" /\ last'.ret = __WASI_ESUCCESS
             /\ from # to /\ fd_renumber(from, to))
            => /\ to \in DOMAIN fds'
               /\ fds'[to].file_type = fds[from].file_type
               /\ fds'[to].rights_base = fds[from].rights_base
               /\ fds'[to].rights_inheriting = fds[from].rights_inheriting ]_vars

\* C10: fd_renumber(from, to) returns bad-handle when from or to is absent
\* and not-supported when both are present and one of them is a preopen; in
\* both cases the table and every host handle are as they were.
C10_RenumberRefusalsChangeNothing ==
    [][ \A from \in Handles, to \in Handles :
            (last'.op = "fd_renumber" /\ fd_renumber(from, to))
            => /\ (from \notin DOMAIN fds \/ to \notin DOMAIN fds)
                  => /\ last'.ret = __WASI_EBADF
                     /\ fds' = fds /\ hostfds' = hostfds
               /\ (/\ from \in DOMAIN fds /\ to \in DOMAIN fds
                   /\ (fds[from].preopen_path # {} \/ fds[to].preopen_path # {}))
                  => /\ last'.ret = __WASI_ENOTSUP
                     /\ fds' = fds /\ hostfds' = hostfds ]_vars

C10_Witness ==
    /\ last.op = "fd_renumber"
    /\ last.ret = __WASI_ENOTSUP
    /\ last.fd \in DOMAIN fds
    /\ fds[last.fd].preopen_path = {}
    /\ nopens > 0

\* The resolutions a call of path_filestat_get(dirfd, dirflags, path) goes
\* through: the result of the walk from the base directory of dirfd.
ResolutionOf(dirfd, dirflags, path) ==
    path_get_resolve(DirPath(hostfds[fds[dirfd].rawfd]), dirflags, path, FALSE)

\* C11: for every path the resolver accepts from a descriptor rooted at the
\* preopened directory R, the walk ends at or below the base directory (a
\* ".." that would pop the base, written in the path or spliced in from a
\* link's target, fails the call with not-capable), and the file the call
\* then acts on lies at or below R.
C11_ResolvedObjectWithinPreopen ==
    [][ \A dirfd \in Handles, dirflags \in LookupInputs, path \in StatPathInputs :
            (/\ last'.op = "path_filestat_get"
             /\ dirfd \in DOMAIN fds
             /\ path_get(dirfd, {__WASI_RIGHT_PATH_FILESTAT_GET}, {})
                    = __WASI_ESUCCESS
             /\ path_filestat_get(dirfd, dirflags, 0, path, 0))
            => /\ last'.ret = __WASI_ESUCCESS
                  => /\ WithinPreopen(ResolutionOf(dirfd, dirflags, path).dir)
                     /\ WithinPreopen(last'.out)
               /\ (\/ (path # <<>> /\ Head(path) = "..")
                   \/ (/\ DirPath(hostfds[fds[dirfd].rawfd]) = PreopenDir
                       /\ path = <<"up", "etc", "passwd">>))
                  => last'.ret = __WASI_ENOTCAPABLE ]_vars

\* C12: the handle a path_open adds to the descriptor table is the lowest
\* handle at or above 3 that is not in the table at that moment, and a
\* successful path_open adds exactly one; so a handle that fd_close has freed
\* is handed out again only when no lower handle from 3 up is free.
C12_LowestFreeHandle ==
    [][ (last'.op = "path_open" /\ (last'.ret = __WASI_ESUCCESS \/ DOMAIN fds' # DOMAIN fds))
        => \E h \in 3 .. (3 + TableOpens) :
              /\ h \notin DOMAIN fds
              /\ DOMAIN fds' = DOMAIN fds \cup {h}
              /\ \A g \in 3 .. h - 1 : g \in DOMAIN fds ]_vars

\* Every open the context allows has succeeded and handles 4 and 5 are in
\* the table: as at most two files are open at a time, one of the two
\* handles has been closed and returned again by the open that just ended.
C12_Witness ==
    /\ last.op = "path_open" /\ last.ret = __WASI_ESUCCESS
    /\ nopens = MaxOpens
    /\ {4, 5} \subseteq DOMAIN fds

\* C13: path_open on a directory handle whose rights_base lacks path_open,
\* or path_create_file with O_CREAT, or path_filestat_set_size with O_TRUNC,
\* or whose rights_inheriting lacks one of the requested base or inheriting
\* rights, or fd_datasync with DSYNC, or fd_sync with SYNC or RSYNC, returns
\* not-capable, and no file is opened, created or truncated.
C13_OpenNeedsRights ==
    [][ \A dirfd \in Handles, path \in PathInputs, o \in TableOpenInputs, fd_out_ptr \in Pointers :
            (/\ last'.op = "path_open"
             /\ dirfd \in DOMAIN fds
             /\ fds[dirfd].file_type = __WASI_FILETYPE_DIRECTORY
             /\ \/ __WASI_RIGHT_PATH_OPEN \notin fds[dirfd].rights_base
                \/ /\ __WASI_O_CREAT \in o[1]
                   /\ __WASI_RIGHT_PATH_CREATE_FILE \notin fds[dirfd].rights_base
                \/ /\ __WASI_O_TRUNC \in o[1]
                   /\ __WASI_RIGHT_PATH_FILESTAT_SET_SIZE \notin fds[dirfd].rights_base
                \/ ~((o[2] \cup o[3]) \subseteq fds[dirfd].rights_inheriting)
                \/ /\ __WASI_FDFLAG_DSYNC \in o[4]
                   /\ __WASI_RIGHT_FD_DATASYNC \notin fds[dirfd].rights_inheriting
                \/ /\ o[4] \cap {__WASI_FDFLAG_SYNC, __WASI_FDFLAG_RSYNC} # {}
                   /\ __WASI_RIGHT_FD_SYNC \notin fds[dirfd].rights_inheriting
             /\ path_open(dirfd, path, o[1], o[2], o[3], o[4], fd_out_ptr))
            => /\ last'.ret = __WASI_ENOTCAPABLE
               /\ ~last'.os
               /\ <<fds, hostfds, files>>' = <<fds, hostfds, files>> ]_vars

\* The descriptor subscriptions of a poll_oneoff that has returned, in the
\* order of the subscription array, and those of them poll(2) reported ready.
PolledFds == SelectSeq(last'.out.input, LAMBDA e : e.type # __WASI_EVENTTYPE_CLOCK)
ReadyFds == {i \in 1 .. Len(PolledFds) : last'.out.revents[i] # {}}

\* C14: when poll(2) reports at least one descriptor ready, poll_oneoff
\* returns exactly one event for each descriptor subscription that is ready,
\* wherever it stands in the subscription array, and none for a subscription
\* that is not ready.
C14_OneEventPerReadyFd ==
    [][ (/\ last'.op = "poll_oneoff" /\ last'.ret = __WASI_ESUCCESS /\ last'.os
         /\ ReadyFds # {})
        => /\ Len(last'.out.events) = Cardinality(ReadyFds)
           /\ \A u \in {s.userdata : s \in SubscriptionInputs} :
                 Cardinality({i \in 1 .. Len(last'.out.events) :
                                 last'.out.events[i].userdata = u})
                 = Cardinality({i \in ReadyFds : PolledFds[i].userdata = u}) ]_vars

\* The clock subscriptions of a poll_oneoff that has returned, and the delay
\* in nanoseconds the call computes for one of them.
PolledClocks == SelectSeq(last'.out.input, LAMBDA e : e.type = __WASI_EVENTTYPE_CLOCK)
DelayOf(c) == wasi_clock_to_relative_ns_delay(c, last'.out.now.realtime)

\* C15: a poll_oneoff with at least one clock subscription and no descriptor
\* ready before the earliest clock deadline returns exactly one event, of
\* clock type and error success, with the userdata of a clock subscription of
\* the smallest delay.
C15_TimeoutEventOfSmallestDelay ==
    [][ (/\ last'.op = "poll_oneoff" /\ last'.ret = __WASI_ESUCCESS
         /\ PolledClocks # <<>>
         /\ ReadyFds = {})
        => /\ Len(last'.out.events) = 1
           /\ last'.out.events[1].type = __WASI_EVENTTYPE_CLOCK
           /\ last'.out.events[1].error = __WASI_ESUCCESS
           /\ \E i \in 1 .. Len(PolledClocks) :
                 /\ last'.out.events[1].userdata = PolledClocks[i].userdata
                 /\ \A j \in 1 .. Len(PolledClocks) :
                       DelayOf(PolledClocks[i]) <= DelayOf(PolledClocks[j]) ]_vars

\* C16: the delay poll_oneoff computes for a clock subscription, here the
\* only one of the call and in the milliseconds poll(2) takes, is the timeout
\* less the reading of the subscription's own clock, and 0 when that reading
\* is past the timeout, if the flags include the absolute-time bit; it is
\* the timeout itself if they do not.
C16_DelayAgainstOwnClock ==
    [][ (/\ last'.op = "poll_oneoff" /\ last'.ret = __WASI_ESUCCESS
         /\ Len(PolledClocks) = 1)
        => LET c == PolledClocks[1]
               now == IF c.clock_id = __WASI_CLOCK_REALTIME
                      THEN last'.out.now.realtime ELSE last'.out.now.monotonic
               delay == IF (c.flags \div __WASI_SUBSCRIPTION_CLOCK_ABSTIME) % 2 = 1
                        THEN (IF c.timeout > now THEN c.timeout - now ELSE 0)
                        ELSE c.timeout
           IN  \A t \in last'.out.timeout : t.delay = delay \div 1000000 ]_vars

\* C17: an operation that has failed returns its own error whether or not
\* the result can be written to guest memory: a path_open whose lookup of the
\* directory failed with e returns e, also when fd_out is outside guest
\* memory, and fd_fdstat_get on a handle that is not in the table returns
\* bad-handle, also when fdstat_ptr is outside guest memory.
C17_WriteBackKeepsError ==
    [][ /\ \A dirfd \in Handles, path \in PathInputs, o \in TableOpenInputs, fd_out_ptr \in Pointers :
              LET e == path_get(dirfd, path_open_needed_base(o[1]),
                                path_open_needed_inheriting(o[2], o[3], o[4]))
              IN  (/\ last'.op = "path_open"
                   /\ e # __WASI_ESUCCESS
                   /\ path_open(dirfd, path, o[1], o[2], o[3], o[4], fd_out_ptr))
                  => last'.ret = e
        /\ \A fd \in Handles, fdstat_ptr \in Pointers :
              (/\ last'.op = "fd_fdstat_get"
               /\ fd \notin DOMAIN fds
               /\ fd_fdstat_get(fd, fdstat_ptr))
              => last'.ret = __WASI_EBADF ]_vars

C19_ReadlinkUsed ==
    [][ \A sys \in {"unix", "windows"}, dirfd \in Handles, path \in ReadlinkPathInputs,
           buf_len \in BufLenInputs :
            (/\ last'.op = "path_readlink"
             /\ path_get(dirfd, {__WASI_RIGHT_PATH_READLINK}, {}) = __WASI_ESUCCESS
             /\ fds[dirfd].rawfd \in DOMAIN hostfds
             /\ LowestFree(DOMAIN hostfds) <= MaxRawFd
             /\ ResolutionOf(dirfd, {}, path).errno = __WASI_ESUCCESS
             /\ path_readlink_buf(sys, dirfd, path, buf_len))
            => LET r == ResolutionOf(dirfd, {}, path)
                   p == IF r.name = "." THEN r.dir ELSE r.dir \o <<r.name>>
               IN  /\ (buf_len = 0 /\ HostKind(p) # "none")
                      => /\ last'.ret = __WASI_ESUCCESS
                         /\ last'.out.used = 0
                         /\ ~last'.out.read
                         /\ last'.out.written = 0
                   /\ (buf_len > 0 /\ HostKind(p) = __WASI_FILETYPE_SYMBOLIC_LINK)
                      => /\ last'.ret = __WASI_ESUCCESS
                         /\ last'.out.used = IF TextLen(SymLinks[p]) < buf_len
                                             THEN TextLen(SymLinks[p]) ELSE buf_len ]_vars

\* C20: an fd_readdir that gets as far as listing the directory succeeds,
\* whatever buf_len is, with used at most buf_len: used is the size of the
\* whole entries written, which are the first entries of the listing, and
\* the entry after them, if there is one, does not fit in the space left.
C20_ReaddirDropsPartialEntry ==
    [][ (/\ last'.op = "fd_readdir"
         /\ last'.ret \notin {__WASI_EBADF, __WASI_ENOTCAPABLE, __WASI_ENOTDIR})
        => /\ last'.ret = __WASI_ESUCCESS
           /\ last'.out.used <= last'.out.buf_len
           /\ last'.out.written = last'.out.used
           /\ \E k \in 0 .. Len(last'.out.names) :
                 /\ last'.out.used = EntriesSize(last'.out.names, k)
                 /\ k < Len(last'.out.names)
                    => EntriesSize(last'.out.names, k + 1) > last'.out.buf_len ]_vars

\* C21: an fd_readdir that succeeds from cookie 0 yields "." with cookie 1
\* and ".." with cookie 2 before every other entry, and the cookie of an
\* entry it yields, from whatever cookie, resumes the listing with exactly
\* the entries that follow that entry.
C21_CookieResumesAfterEntry ==
    [][ (/\ last'.op = "fd_readdir"
         /\ last'.ret = __WASI_ESUCCESS)
        => LET o == last'.out
               dir == DirPath(hostfds[fds[last'.fd].rawfd])
               listing == Dirents(o.sys, dir, o.cookie, o.backwards)
           IN  /\ (o.cookie = 0 /\ Len(o.dirents) >= 1)
                  => o.dirents[1] = [name |-> ".", cookie |-> 1]
               /\ (o.cookie = 0 /\ Len(o.dirents) >= 2)
                  => o.dirents[2] = [name |-> "..", cookie |-> 2]
               /\ \A i \in 1 .. Len(o.dirents) :
                     Dirents(o.sys, dir, o.dirents[i].cookie, o.backwards)
                        = SubSeq(listing, i + 1, Len(listing)) ]_vars

\* C22: on an entry that holds the path_open right, fd_prestat_get and
\* fd_prestat_dir_name return not-supported when the entry has no preopen
\* path.  On a preopened directory whose host path has a guest encoding,
\* fd_prestat_get writes the length of that encoding as name_len wherever
\* it can write, and fd_prestat_dir_name returns name-too-long exactly when
\* that length is above buf_len: with buf_len the reported name_len, never.
C22_PrestatNameLen ==
    [][ (/\ last'.op \in {"fd_prestat_get", "fd_prestat_dir_name"}
         /\ get_fd_entry(last'.fd, {__WASI_RIGHT_PATH_OPEN}, {}) = __WASI_ESUCCESS)
        => LET fe == fds[last'.fd]
           IN  /\ fe.preopen_path = {} => last'.ret = __WASI_ENOTSUP
               /\ (/\ fe.preopen_path # {}
                   /\ path_from_host(PoPath(fe)).errno = __WASI_ESUCCESS)
                  => LET n == Len(path_from_host(PoPath(fe)).path)
                     IN  /\ last'.op = "fd_prestat_get"
                            => /\ last'.ret \in {__WASI_ESUCCESS, __WASI_EFAULT}
                               /\ last'.out.pr_name_len = n
                               /\ last'.ret = __WASI_ESUCCESS <=> last'.mem
                         /\ last'.op = "fd_prestat_dir_name"
                            => /\ last'.ret = __WASI_ENAMETOOLONG
                                  <=> n > last'.out.path_len
                               /\ last'.out.path_len = n
                                  => last'.ret = enc_byref(last'.out.path_ptr)
                               /\ last'.ret = __WASI_ESUCCESS <=> last'.mem ]_vars

\* A guest has asked for the name of the directory preopened as "/" and an
\* accented e with a buffer of the three bytes fd_prestat_get reports, and
\* has got it.
C22_Witness ==
    /\ last.op = "fd_prestat_dir_name" /\ last.ret = __WASI_ESUCCESS
    /\ fds[last.fd].preopen_path = {<<47, 195, 169>>}
    /\ last.out.path_len = 3

\* C23: a clock_time_get that succeeds gives the reading of the host's wall
\* clock for the realtime clock and that of its steady clock for the
\* monotonic clock; so of two successive readings of the monotonic clock
\* the later is not below the earlier, wherever the wall clock was set in
\* between.
C23_MonotonicIsSteady ==
    [][ (last'.op = "clock_time_get" /\ last'.ret = __WASI_ESUCCESS)
        => /\ last'.out.clock_id = __WASI_CLOCK_REALTIME
              => last'.out.time = last'.out.wall
           /\ last'.out.clock_id = __WASI_CLOCK_MONOTONIC
              => last'.out.time = last'.out.steady
           /\ (/\ last.op = "clock_time_get" /\ last.ret = __WASI_ESUCCESS
               /\ last.out.sys = last'.out.sys
               /\ last.out.clock_id = __WASI_CLOCK_MONOTONIC
               /\ last'.out.clock_id = __WASI_CLOCK_MONOTONIC)
              => last'.out.time >= last.out.time ]_vars

\* The guest addresses of the bytes of the slices writes[1 .. k], in the
\* order written.
RECURSIVE AddressesWritten(_, _)
AddressesWritten(writes, k) ==
    IF k = 0 THEN <<>>
    ELSE AddressesWritten(writes, k - 1)
         \o [j \in 1 .. Len(writes[k][2]) |-> writes[k][1] + j - 1]

\* C24: args_sizes_get and environ_sizes_get, where they succeed, report
\* the number of strings and the sum of their lengths with the NULs; and
\* args_get and environ_get, where they succeed, write the strings with
\* their NULs in the order of the list at successive addresses from the
\* buffer pointer on, as many bytes as the sizes call reports, the i-th
\* pointer being the buffer pointer plus the lengths of the strings before.
C24_ArgsContiguous ==
    [][ /\ (/\ last'.op \in {"args_sizes_get", "environ_sizes_get"}
            /\ last'.ret = __WASI_ESUCCESS)
           => /\ last'.out.count = Len(last'.out.args)
              /\ last'.out.size = SizeWithNul(last'.out.args, Len(last'.out.args))
        /\ (/\ last'.op \in {"args_get", "environ_get"}
            /\ last'.ret = __WASI_ESUCCESS)
           => LET o == last'.out
                  n == Len(o.args)
              IN  /\ Len(o.argv) = n /\ Len(o.writes) = n
                  /\ \A i \in 1 .. n :
                        /\ o.argv[i] = o.argv_buf + SizeWithNul(o.args, i - 1)
                        /\ o.writes[i] = <<o.argv[i], as_bytes_with_nul(o.args[i])>>
                  /\ AddressesWritten(o.writes, n)
                        = [j \in 1 .. SizeWithNul(o.args, n) |-> o.argv_buf + j - 1] ]_vars

\* C25: args_get and environ_get return overflow when the buffer pointer
\* plus the bytes written before a string is beyond the range of a guest
\* pointer: they do not panic, and do not succeed with a pointer that is not
\* that sum.
C25_ArgsPointerOverflow ==
    [][ (last'.op \in {"args_get", "environ_get"})
        => LET o == last'.out
               beyond == \E i \in 1 .. Len(o.args) :
                            /\ o.argv_buf + SizeWithNul(o.args, i - 1) >= 2^PtrBits
                            /\ \A j \in 1 .. i - 1 :
                                  o.argv_buf + SizeWithNul(o.args, j) <= o.mem_len
           IN  /\ last'.ret # "panic"
               /\ beyond => last'.ret = __WASI_EOVERFLOW
               /\ \A i \in 1 .. Len(o.argv) : 
                     o.argv[i] = o.argv_buf + SizeWithNul(o.args, i - 1) ]_vars

\* C26: an interrupted poll(2) is polled again, the call neither returning
\* an error nor an empty list of events for it; and a poll_oneoff with a
\* clock subscription that has reached poll(2) returns, once the
\* interruptions end, with success and at least one event.
C26_InterruptedPollRetries ==
    /\ [][ (last.op = "poll_oneoff" /\ last.ret = "polling")
           => /\ last'.op = "poll_oneoff"
              /\ last'.ret \in {"polling", __WASI_ESUCCESS}
              /\ last'.out.interrupted > last.out.interrupted
                 => /\ last'.ret = "polling"
                    /\ last'.out.events = <<>>
              /\ (last'.ret = __WASI_ESUCCESS /\ last.out.timeout # {})
                 => last'.out.events # <<>> ]_vars
    /\ (last.ret = "polling" /\ last.out.timeout # {}) ~> (last.ret = __WASI_ESUCCESS)

\* C27: a path_filestat_get that succeeds on a path whose final component
\* is a symbolic link returns the status of the link itself when the lookup
\* flags are without symlink-follow, and that of a file that is no link when
\* they have it; and it passes the host the no-follow flag for the lookup
\* flags for which path_filestat_set_times does.
C27_FilestatOfLinkItself ==
    [][ \A dirfd \in Handles, dirflags \in LookupInputs, path \in StatPathInputs :
            (/\ last'.op = "path_filestat_get"
             /\ last'.ret = __WASI_ESUCCESS
             /\ dirfd \in DOMAIN fds
             /\ path_filestat_get(dirfd, dirflags, 0, path, 0))
            => LET r == ResolutionOf(dirfd, dirflags, path)
                   p == IF r.name = "." THEN r.dir ELSE r.dir \o <<r.name>>
               IN  /\ (dirflags = {} /\ HostKind(p) = __WASI_FILETYPE_SYMBOLIC_LINK)
                      => last'.out = p
                   /\ dirflags = {__WASI_LOOKUP_SYMLINK_FOLLOW}
                      => HostKind(last'.out) # __WASI_FILETYPE_SYMBOLIC_LINK
                   /\ filestat_atflags_nofollow(dirflags)
                         = set_times_atflags_nofollow(dirflags) ]_vars

\* C28: a poll_oneoff that returns has, for every descriptor subscription
\* whose handle is not in the descriptor table, an event of that subscription
\* with the error bad-handle, and has not asked the host about the host
\* descriptor of that number: no readiness of it has come back.
C28_PollThroughTable ==
    [][ (last'.op = "poll_oneoff" /\ last'.ret = __WASI_ESUCCESS)
        => \A i \in 1 .. Len(PolledFds) :
              PolledFds[i].fd \notin DOMAIN fds
              => /\ \E j \in 1 .. Len(last'.out.events) :
                       /\ last'.out.events[j].userdata = PolledFds[i].userdata
                       /\ last'.out.events[j].error = __WASI_EBADF
                 /\ last'.out.revents[i] \cap {"POLLIN", "POLLOUT"} = {} ]_vars

\* C29: across fd_renumber(from, to), whatever it returns, every handle of
\* the descriptor table other than from and to stays in the table with its
\* entry as it was.
C29_RenumberFrame ==
    [][ \A from \in Handles, to \in Handles :
            (last'.op = "fd_renumber" /\ fd_renumber(from, to))
            => \A h \in DOMAIN fds \ {from, to} :
                  /\ h \in DOMAIN fds'
                  /\ fds'[h] = fds[h] ]_vars

\* C30: a path_link that succeeds with symlink-follow clear on a source whose
\* final component is a symbolic link makes the new name a link to that
\* symbolic link itself, and no path_link that succeeds makes a name a link
\* to a file that lies outside the preopened directory.
C30_LinkHonoursOldFlags ==
    [][ (last'.op = "path_link" /\ last'.ret = __WASI_ESUCCESS)
        => /\ (last'.out.old_flags = {}
                  /\ HostKind(last'.out.src) = __WASI_FILETYPE_SYMBOLIC_LINK)
              => last'.out.obj = last'.out.src
           /\ WithinPreopen(last'.out.obj) ]_vars

====
